---- MODULE Spec2Model ----
(***************************************************************************)
(* A model of the training-plan parser (src/src/pdf_parser_v3.py) and of   *)
(* the workout converter (src/src/garmin_workout_converter.py).            *)
(*                                                                         *)
(* Strings of the document are modelled by what the code's regular         *)
(* expressions can see of them:                                            *)
(*   - a power string is a record: kind "range" when it holds "lo à hi"    *)
(*     (the only shape re.search(r'(\d+)\s*à\s*(\d+)') matches), "single"  *)
(*     for one number, "text" for anything else;                           *)
(*   - a duration string "m:ss" / "mm:ss" is a record of its minute digit  *)
(*     count w, its minutes m and its seconds s;                           *)
(*   - a line of text is a record of the features the parsers' patterns    *)
(*     test (see Line below).                                              *)
(***************************************************************************)
EXTENDS Integers, Sequences, FiniteSets, TLC

VARIABLES
    power_str,        \* adjust_power_for_garmin: argument power_str
    phase,            \* adjust_power_for_garmin: argument phase
    is_home_trainer,  \* argument is_home_trainer (adjust_power_for_garmin and the parsers)
    warmup_index,     \* adjust_power_for_garmin: argument warmup_index
    power_data,       \* adjust_power_for_garmin: the dict returned
    text,             \* the parsers' argument text / table_text, as its lines
    intervals,        \* the parsers' list intervals
    i,                \* the table parsers' position in the lines of the text (from 1)
    current_phase,    \* the table parsers' current_phase ("" for None)
    workout_json,     \* the converter's argument workout_json (its code and intervals)
    repeat_groups,    \* the list detect_repeat_groups returns
    garmin_workout,   \* the payload convert_to_garmin_*_workout returns
    pages,            \* parse: the pages of the document (self.pdf.pages)
    all_text,         \* find_workout_sections: all_text
    sections,         \* find_workout_sections: the list sections it returns
    workouts,         \* parse: the list workouts; the upload scripts: result['workouts']
    printed,          \* parse: the codes of its lines "Error parsing {code}: {e}"
    uploaded,         \* the upload scripts: the list uploaded
    skipped,          \* the upload scripts: the list skipped
    errors,           \* the upload scripts: the list errors
    sent,             \* the payloads garmin.client.upload_workout was called with
    events,           \* the upload loops: the upload calls made and the calls of time.sleep
    results,          \* upload_from_json: the dict results (code -> success)
    exception,        \* the message of the exception that has left the call ("": none)
    op,               \* the function that is called
    pc                \* position of the call: "call" before, "loop" inside, "done" after

vars == <<power_str, phase, is_home_trainer, warmup_index, power_data,
          text, intervals, i, current_phase, workout_json, repeat_groups,
          garmin_workout, pages, all_text, sections, workouts, printed,
          uploaded, skipped, errors, sent, events, results, exception, op, pc>>

\* the variables of the parser's functions, and those of the converter's
parserVars == <<power_str, phase, is_home_trainer, warmup_index, power_data,
                text, intervals, i, current_phase>>
converterVars == <<workout_json, repeat_groups, garmin_workout>>
\* the variables of parse and find_workout_sections, and those of the upload scripts
documentVars == <<pages, all_text, sections, workouts, printed>>
uploadVars == <<uploaded, skipped, errors, sent, events, results, exception>>

(***************************************************************************)
(* Bounds of the model.                                                    *)
(***************************************************************************)
\* the power strings drawn hold MaxPowerStep + 1 different values
MaxPowerStep == 2
\* a text holds at most MaxLines lines
MaxLines == 4
\* a repetition declaration repeats 2..MaxRepeat times
MaxRepeat == 2
\* a workout handed to the converter is made of at most MaxSegments segments,
\* each one interval or one expanded repetition block
MaxSegments == 3
\* a batch handed to an upload script holds at most MaxBatch workouts
MaxBatch == 3
\* a document holds at most MaxTokens tokens, on at most MaxPages pages
MaxTokens == 4
MaxPages == 2

(***************************************************************************)
(* Power strings.                                                          *)
(***************************************************************************)
Range(lo, hi) == [kind |-> "range", lo |-> lo, hi |-> hi]
Single(w) == [kind |-> "single", lo |-> w, hi |-> w]
Text(t) == [kind |-> t, lo |-> 0, hi |-> 0]

\* re.search(r'(\d+)\s*à\s*(\d+)', power_str)
PowerRangeMatch(s) == s.kind = "range"

(***************************************************************************)
(* Duration strings.                                                       *)
(***************************************************************************)
Dur(w, m, s) == [w |-> w, m |-> m, s |-> s]

(***************************************************************************)
(* Phase strings.  Lower is str.lower(); Contains(s, sub) is "sub in s"    *)
(* for the substrings the code probes.                                     *)
(***************************************************************************)
PhaseStrings ==
    {"Echauffement", "Échauffement", "ECHAUFFEMENT", "Corps de séance",
     "CORPS DE SÉANCE", "Récupération", "Recuperation", "Repos", ""}

Lower(s) ==
    CASE s = "Echauffement" -> "echauffement"
      [] s = "Échauffement" -> "échauffement"
      [] s = "ECHAUFFEMENT" -> "echauffement"
      [] s = "Corps de séance" -> "corps de séance"
      [] s = "CORPS DE SÉANCE" -> "corps de séance"
      [] s = "Récupération" -> "récupération"
      [] s = "Recuperation" -> "recuperation"
      [] s = "Repos" -> "repos"
      [] OTHER -> s

Substrings(s) ==
    CASE s = "echauffement" -> {"echauffement", "chauffement"}
      [] s = "échauffement" -> {"échauffement", "chauffement"}
      [] s = "corps de séance" -> {"corps de séance"}
      [] s = "récupération" -> {"récupération", "récup", "cup"}
      [] s = "recuperation" -> {"cup"}
      [] s = "repos" -> {"repos"}
      [] s = "Echauffement" -> {"Echauffement", "chauffement"}
      [] s = "Échauffement" -> {"Échauffement", "chauffement"}
      [] s = "Corps de séance" -> {"Corps de séance"}
      [] s = "Récupération" -> {"Récupération", "cup"}
      [] OTHER -> {}

Contains(s, sub) == sub \in Substrings(s)

(***************************************************************************)
(* adjust_power_for_garmin                                                 *)
(***************************************************************************)
HT_WARMUP_STANDARD ==
    << [duration |-> Dur(1, 2, 30), power |-> Range(96, 106)],
       [duration |-> Dur(1, 2, 30), power |-> Range(130, 136)],
       [duration |-> Dur(1, 5, 0), power |-> Range(156, 166)],
       [duration |-> Dur(1, 5, 0), power |-> Range(180, 190)] >>

HT_RECOVERY_POWER == Range(175, 180)

BODY_POWER_OFFSET == 15

\* the "adjustment" entry of the returned dict: a number of watts or "forced"
Watts(n) == [forced |-> FALSE, w |-> n]
Forced == [forced |-> TRUE, w |-> 0]

\* warmup_index: None, or an integer
NoIndex == [given |-> FALSE, value |-> 0]
Index(n) == [given |-> TRUE, value |-> n]

\* f"Échauffement HT bloc {warmup_index + 1}/4 toujours {forced_power}W"
WarmupForcedReason ==
    << "Échauffement HT bloc 1/4 toujours 96à106W",
       "Échauffement HT bloc 2/4 toujours 130à136W",
       "Échauffement HT bloc 3/4 toujours 156à166W",
       "Échauffement HT bloc 4/4 toujours 180à190W" >>

PowerData(original, adjusted, adjustment, forced_reason) ==
    [original |-> original, adjusted |-> adjusted, adjustment |-> adjustment,
     forced_reason |-> forced_reason]

\* adjust_power_for_garmin with the body offset applied on the home trainer only
\* (the rule of table_based_parser.py); C3_BodyOffset tells the two apart
adjust_power_body_ht_only(p_str, ph, is_ht, w_idx) ==
    IF ~PowerRangeMatch(p_str)
    THEN PowerData(p_str, p_str, Watts(0), "")
    ELSE LET original == Range(p_str.lo, p_str.hi) IN
         IF is_ht /\ (Contains(Lower(ph), "échauffement") \/ Contains(Lower(ph), "echauffement"))
         THEN IF w_idx.given /\ 0 <= w_idx.value /\ w_idx.value < Len(HT_WARMUP_STANDARD)
              THEN PowerData(original, HT_WARMUP_STANDARD[w_idx.value + 1].power, Forced,
                             WarmupForcedReason[w_idx.value + 1])
              ELSE PowerData(original, HT_WARMUP_STANDARD[1].power, Forced,
                             "Échauffement HT toujours selon séquence standard")
         ELSE IF is_ht /\ Contains(Lower(ph), "récupération")
         THEN PowerData(original, HT_RECOVERY_POWER, Forced,
                        "Récupération HT toujours 175-180W")
         ELSE IF is_ht /\ Contains(Lower(ph), "corps de séance")
         THEN PowerData(original,
                        Range(p_str.lo + BODY_POWER_OFFSET, p_str.hi + BODY_POWER_OFFSET),
                        Watts(BODY_POWER_OFFSET), "")
         ELSE PowerData(original, original, Watts(0), "")

\* adjust_power_for_garmin with the two forcing rules applied whatever
\* is_home_trainer is; C6_UnchangedOtherwise tells the two apart
adjust_power_always_forced(p_str, ph, is_ht, w_idx) ==
    IF ~PowerRangeMatch(p_str)
    THEN PowerData(p_str, p_str, Watts(0), "")
    ELSE LET original == Range(p_str.lo, p_str.hi) IN
         IF Contains(Lower(ph), "échauffement") \/ Contains(Lower(ph), "echauffement")
         THEN IF w_idx.given /\ 0 <= w_idx.value /\ w_idx.value < Len(HT_WARMUP_STANDARD)
              THEN PowerData(original, HT_WARMUP_STANDARD[w_idx.value + 1].power, Forced,
                             WarmupForcedReason[w_idx.value + 1])
              ELSE PowerData(original, HT_WARMUP_STANDARD[1].power, Forced,
                             "Échauffement HT toujours selon séquence standard")
         ELSE IF Contains(Lower(ph), "récupération")
         THEN PowerData(original, HT_RECOVERY_POWER, Forced,
                        "Récupération HT toujours 175-180W")
         ELSE IF Contains(Lower(ph), "corps de séance")
         THEN PowerData(original,
                        Range(p_str.lo + BODY_POWER_OFFSET, p_str.hi + BODY_POWER_OFFSET),
                        Watts(BODY_POWER_OFFSET), "")
         ELSE PowerData(original, original, Watts(0), "")

adjust_power_for_garmin(p_str, ph, is_ht, w_idx) ==
    IF ~PowerRangeMatch(p_str)
    THEN PowerData(p_str, p_str, Watts(0), "")
    ELSE LET original == Range(p_str.lo, p_str.hi) IN
         IF is_ht /\ (Contains(Lower(ph), "échauffement") \/ Contains(Lower(ph), "echauffement"))
         THEN IF w_idx.given /\ 0 <= w_idx.value /\ w_idx.value < Len(HT_WARMUP_STANDARD)
              THEN PowerData(original, HT_WARMUP_STANDARD[w_idx.value + 1].power, Forced,
                             WarmupForcedReason[w_idx.value + 1])
              ELSE PowerData(original, HT_WARMUP_STANDARD[1].power, Forced,
                             "Échauffement HT toujours selon séquence standard")
         ELSE IF is_ht /\ Contains(Lower(ph), "récupération")
         THEN PowerData(original, HT_RECOVERY_POWER, Forced,
                        "Récupération HT toujours 175-180W")
         ELSE IF Contains(Lower(ph), "corps de séance")
         THEN PowerData(original,
                        Range(p_str.lo + BODY_POWER_OFFSET, p_str.hi + BODY_POWER_OFFSET),
                        Watts(BODY_POWER_OFFSET), "")
         ELSE PowerData(original, original, Watts(0), "")

(***************************************************************************)
(* Lines of a workout's text.  A line is the record of what the parsers'   *)
(* patterns can tell apart:                                                *)
(*   kind     "blank"    an empty line                                     *)
(*            "caption"  text no pattern matches (a column caption, or a   *)
(*                       phase label standing alone)                       *)
(*            "rep"      "<n> x (<d1>-...-<dk>) :"                         *)
(*            "decomp"   "dd:dd[*]* (<position>) décomposées en :"         *)
(*            "plain"    "<duration> <cadence range> <power range>"        *)
(*            "posplain" "<duration>[*]* (<position>) <cadence> <power>"   *)
(*   label    the phase label the line starts with, "" when it has none    *)
(*   indent   the raw line starts with a space                             *)
(*   stars    the number of '*' after the duration                         *)
(*   n, segs  the count and the number of '-'-separated segments of a      *)
(*            repetition declaration                                       *)
(***************************************************************************)
Line(kind, label, indent, duration, stars, position, cadence, power, n, segs) ==
    [kind |-> kind, label |-> label, indent |-> indent, duration |-> duration,
     stars |-> stars, position |-> position, cadence |-> cadence, power |-> power,
     n |-> n, segs |-> segs]

NoDur == Dur(0, 0, 0)
NoPower == Text("")

BlankLine == Line("blank", "", FALSE, NoDur, 0, "", "", NoPower, 0, 0)
LabelLine(label) == Line("caption", label, FALSE, NoDur, 0, "", "", NoPower, 0, 0)
RepLine(n, segs) == Line("rep", "", FALSE, NoDur, 0, "", "", NoPower, n, segs)
DecompLine(duration, stars, position) ==
    Line("decomp", "", FALSE, duration, stars, position, "", NoPower, 0, 0)
PlainLine(label, indent, duration, cadence, power) ==
    Line("plain", label, indent, duration, 0, "", cadence, power, 0, 0)
PosLine(label, indent, duration, stars, position, cadence, power) ==
    Line("posplain", label, indent, duration, stars, position, cadence, power, 0, 0)

\* r'(\d+)\s*x\s*\(([^)]+)\)\s*:' (searched in the text) and
\* r'(\d+)\s*x\s*\(([\d:*-]+)\)\s*:' (detect_repetition_pattern)
RepetitionMatch(l) == l.kind = "rep"

\* r'(\d{2}:\d{2})[*]*\s*\(([^)]+)\)\s*décomposées en\s*:'
DecomposedMatch(l) == l.kind = "decomp"

\* r'(\d{1,2}:\d{2})\s+(\d+\s*à\s*\d+)\s+(\d+\s*à\s*\d+)'
SubIntervalMatch(l) == l.kind = "plain"

\* r'(\d{2}:\d{2})[*]*\s*\(([^)]+)\)\s+(\d+\s*à\s*\d+)\s+(\d+\s*à\s*\d+)'
SimpleMatch(l) == l.kind = "posplain" /\ l.duration.w = 2

\* r'(\d{1,2}:\d{2})\s+\(([^)]+)\)\s+(\d+\s*à\s*\d+)\s+(\d+\s*à\s*\d+)'
RepeatSimpleMatch(l) == l.kind = "posplain" /\ l.stars = 0

\* r'\n(\d{2}:\d{2}[*]{3,})': a raw line that starts with dd:dd***
EndRepeatMatch(l) ==
    /\ l.kind \in {"decomp", "posplain"}
    /\ l.label = ""
    /\ ~l.indent
    /\ l.duration.w = 2
    /\ l.stars >= 3

\* 'décomposées en' in sub_line or ('(' in sub_line and 'Position' in sub_line)
\* 'décomposées en' in sub_line or '(Position' in sub_line
NewSectionLine(l) == l.kind \in {"decomp", "posplain"}

(***************************************************************************)
(* Interval records.  A key the code leaves out of the dict is "" (a       *)
(* string), FALSE (is_sub_interval) or 0 (the repetition tags).            *)
(***************************************************************************)
Interval(ph, duration, cadence, pdata, forced_reason, position, is_sub) ==
    [phase |-> ph, duration |-> duration, cadence_rpm |-> cadence,
     cadence_upload_to_garmin |-> FALSE,
     power_watts_original |-> pdata.original, power_watts |-> pdata.adjusted,
     power_adjustment_w |-> pdata.adjustment, forced_reason |-> forced_reason,
     position |-> position, is_sub_interval |-> is_sub,
     repetition_iteration |-> 0, repetition_total |-> 0]

\* f"Échauffement HT standard bloc {idx + 1}/4"
WarmupBlocReason ==
    << "Échauffement HT standard bloc 1/4", "Échauffement HT standard bloc 2/4",
       "Échauffement HT standard bloc 3/4", "Échauffement HT standard bloc 4/4" >>

\* the loop over HT_WARMUP_STANDARD that opens both cycling parsers
HTWarmupIntervals ==
    [idx \in 1..Len(HT_WARMUP_STANDARD) |->
        Interval("Echauffement", HT_WARMUP_STANDARD[idx].duration, "libre",
                 PowerData(Text("standard HT"), HT_WARMUP_STANDARD[idx].power, Forced, ""),
                 WarmupBlocReason[idx], "", FALSE)]

HT_RECOVERY_DURATION == Dur(1, 2, 0)

\* the two recovery dicts that close both cycling parsers
HTRecoveryIntervals ==
    << Interval("Récupération", HT_RECOVERY_DURATION, "libre",
                PowerData(Text("standard HT"), HT_RECOVERY_POWER, Forced, ""),
                "Récupération HT standard bloc 1/2", "", FALSE),
       Interval("Récupération", HT_RECOVERY_DURATION, "libre",
                PowerData(Text("standard HT"), HT_RECOVERY_POWER, Forced, ""),
                "Récupération HT standard bloc 2/2", "", FALSE) >>

\* "for iteration in range(repeat_count): for interval in single: copy, tag, append"
RECURSIVE ExpandRepetition(_, _, _)
ExpandRepetition(single, repeat_count, iteration) ==
    IF iteration > repeat_count THEN <<>>
    ELSE [k \in 1..Len(single) |->
             [single[k] EXCEPT !.repetition_iteration = iteration,
                               !.repetition_total = repeat_count]]
         \o ExpandRepetition(single, repeat_count, iteration + 1)

(***************************************************************************)
(* _parse_cycling_full_text and its helpers                                *)
(***************************************************************************)
\* the dict the full-text helpers append for a matching line
FullTextInterval(l, ph, is_ht, position, is_sub) ==
    Interval(ph, l.duration, l.cadence,
             adjust_power_for_garmin(l.power, ph, is_ht, NoIndex), "", position, is_sub)

\* _parse_simple_intervals
RECURSIVE parse_simple_intervals(_, _, _)
parse_simple_intervals(lines, ph, is_ht) ==
    IF lines = <<>> THEN <<>>
    ELSE (IF SimpleMatch(Head(lines))
          THEN <<FullTextInterval(Head(lines), ph, is_ht, Head(lines).position, FALSE)>>
          ELSE <<>>)
         \o parse_simple_intervals(Tail(lines), ph, is_ht)

\* _parse_mixed_intervals: parent is the position of the decomposed block whose
\* sub-lines are being read, "" outside of one
RECURSIVE MixedFrom(_, _, _, _, _)
MixedFrom(lines, at, parent, ph, is_ht) ==
    IF at > Len(lines) THEN <<>>
    ELSE IF parent # ""
    THEN IF NewSectionLine(lines[at])
         THEN MixedFrom(lines, at, "", ph, is_ht)
         ELSE (IF SubIntervalMatch(lines[at])
               THEN <<FullTextInterval(lines[at], ph, is_ht, parent, TRUE)>>
               ELSE <<>>)
              \o MixedFrom(lines, at + 1, parent, ph, is_ht)
    ELSE IF DecomposedMatch(lines[at])
    THEN MixedFrom(lines, at + 1, lines[at].position, ph, is_ht)
    ELSE (IF SimpleMatch(lines[at])
          THEN <<FullTextInterval(lines[at], ph, is_ht, lines[at].position, FALSE)>>
          ELSE <<>>)
         \o MixedFrom(lines, at + 1, "", ph, is_ht)

parse_mixed_intervals(lines, ph, is_ht) == MixedFrom(lines, 1, "", ph, is_ht)

\* _parse_repeat_block_content
RECURSIVE RepeatBlockFrom(_, _, _, _, _)
RepeatBlockFrom(lines, at, parent, ph, is_ht) ==
    IF at > Len(lines) THEN <<>>
    ELSE IF parent # ""
    THEN IF NewSectionLine(lines[at])
         THEN RepeatBlockFrom(lines, at, "", ph, is_ht)
         ELSE (IF SubIntervalMatch(lines[at])
               THEN <<FullTextInterval(lines[at], ph, is_ht, parent, TRUE)>>
               ELSE <<>>)
              \o RepeatBlockFrom(lines, at + 1, parent, ph, is_ht)
    ELSE IF DecomposedMatch(lines[at])
    THEN RepeatBlockFrom(lines, at + 1, lines[at].position, ph, is_ht)
    ELSE (IF RepeatSimpleMatch(lines[at])
          THEN <<FullTextInterval(lines[at], ph, is_ht, lines[at].position, FALSE)>>
          ELSE <<>>)
         \o RepeatBlockFrom(lines, at + 1, "", ph, is_ht)

parse_repeat_block_content(lines, ph, is_ht) == RepeatBlockFrom(lines, 1, "", ph, is_ht)

\* the first / the last of the positions hits where a pattern is found (0: none)
FirstIndex(hits) ==
    IF hits = {} THEN 0 ELSE CHOOSE k \in hits : \A j \in hits : k <= j

LastIndex(hits) ==
    IF hits = {} THEN 0 ELSE CHOOSE k \in hits : \A j \in hits : k >= j

HasLabelRecup(l) == l.label = "Récupération"
HasLabelEchauffement(l) == l.label = "Echauffement"
HasLabelCorps(l) == l.label = "Corps de séance"

\* the text between the marks the function cuts at, as the lines lo..hi of s
Slice(s, lo, hi) == IF lo > hi THEN <<>> ELSE SubSeq(s, lo, hi)

\* corps_full_text of _parse_cycling_full_text: the lines of the body, <<>> when
\* corps_full_text is None or holds no line
CorpsFullText(lines) ==
    LET rep == FirstIndex({k \in 1..Len(lines) : RepetitionMatch(lines[k])}) IN
    IF rep # 0
    THEN LET recup == FirstIndex({k \in rep..Len(lines) : HasLabelRecup(lines[k])})
             ech == LastIndex({k \in 1..(rep - 1) : HasLabelEchauffement(lines[k])})
         IN IF recup # 0
            THEN \* before_text[before_text.rfind('Echauffement'):] + text up to 'Récupération'
                 (IF ech # 0 THEN Slice(lines, ech, rep - 1) ELSE <<>>)
                     \o Slice(lines, rep, recup - 1)
            ELSE lines
    ELSE LET corps == FirstIndex({k \in 1..Len(lines) : HasLabelCorps(lines[k])})
             recup == IF corps = 0 THEN 0
                      ELSE FirstIndex({k \in (corps + 1)..Len(lines) :
                                          HasLabelRecup(lines[k])})
         IN IF corps # 0 /\ recup # 0
            THEN Slice(lines, corps, recup - 1)
            ELSE <<>>

\* the body intervals of _parse_cycling_full_text (lines 477-553)
CorpsIntervals(lines, is_ht) ==
    LET corps == CorpsFullText(lines)
        rep == FirstIndex({k \in 1..Len(corps) : RepetitionMatch(corps[k])})
    IN IF rep # 0
       THEN LET stop == FirstIndex({k \in (rep + 1)..Len(corps) :
                                       EndRepeatMatch(corps[k])})
                content == IF stop # 0 THEN Slice(corps, rep + 1, stop - 1)
                                       ELSE Slice(corps, rep + 1, Len(corps))
                after == IF stop # 0 THEN Slice(corps, stop, Len(corps)) ELSE <<>>
            IN parse_mixed_intervals(Slice(corps, 1, rep - 1), "Corps de séance", is_ht)
               \o ExpandRepetition(
                      parse_repeat_block_content(content, "Corps de séance", is_ht),
                      corps[rep].n, 1)
               \o parse_mixed_intervals(after, "Corps de séance", is_ht)
       ELSE parse_simple_intervals(corps, "Corps de séance", is_ht)

parse_cycling_full_text(lines, is_ht) ==
    (IF is_ht THEN HTWarmupIntervals ELSE <<>>)
        \o CorpsIntervals(lines, is_ht)
        \o (IF is_ht THEN HTRecoveryIntervals ELSE <<>>)

(***************************************************************************)
(* _parse_cycling_table_v3_with_ht_rules and its helpers                   *)
(***************************************************************************)
\* the phase a line switches to: 'Echauffement' in line or 'Échauffement' in line,
\* elif 'Corps de séance' in line, elif 'Récupération' in line; "" for none
TablePhaseLabel(l) ==
    IF l.label \in {"Echauffement", "Échauffement"} THEN "Echauffement"
    ELSE IF l.label = "Corps de séance" THEN "Corps de séance"
    ELSE IF l.label = "Récupération" THEN "Récupération"
    ELSE ""

\* 'Position aéro' in line or 'aéro.' in line, elif 'Position haute' in line
DetectPosition(l) ==
    IF l.position = "Position aéro." THEN "Position aéro"
    ELSE IF l.position = "Position haute" THEN "Position haute"
    ELSE ""

\* the dict built for a line matching the plain-interval pattern (lines 951-986,
\* 1086-1121 and parse_decomposed_sub_intervals)
TableInterval(l, ph, is_ht, position, is_sub) ==
    LET pdata == adjust_power_for_garmin(l.power, ph, is_ht, NoIndex)
    IN Interval(ph, l.duration, l.cadence, pdata, pdata.forced_reason, position, is_sub)

\* parse_decomposed_sub_intervals reading the position on each sub-line, as the
\* plain lines do, in place of the parent's; C4_DecomposedBlock tells the two apart
RECURSIVE parse_decomposed_own_position(_, _, _, _)
parse_decomposed_own_position(lines, parent_position, is_ht, ph) ==
    IF lines = <<>> THEN <<>>
    ELSE (IF SubIntervalMatch(Head(lines))
          THEN <<TableInterval(Head(lines), ph, is_ht, DetectPosition(Head(lines)), TRUE)>>
          ELSE <<>>)
         \o parse_decomposed_own_position(Tail(lines), parent_position, is_ht, ph)

\* parse_decomposed_sub_intervals
RECURSIVE parse_decomposed_sub_intervals(_, _, _, _)
parse_decomposed_sub_intervals(lines, parent_position, is_ht, ph) ==
    IF lines = <<>> THEN <<>>
    ELSE (IF SubIntervalMatch(Head(lines))
          THEN <<TableInterval(Head(lines), ph, is_ht, parent_position, TRUE)>>
          ELSE <<>>)
         \o parse_decomposed_sub_intervals(Tail(lines), parent_position, is_ht, ph)

\* re.match(r'^\d{2}:\d{2}[*]*\s', next_line) on the stripped line
MainBlockStart(l) ==
    l.label = "" /\ l.kind \in {"plain", "posplain", "decomp"} /\ l.duration.w = 2

\* the line that ends the collection of a repetition's content (lines 870-881)
RepeatContentBreak(l) ==
    \/ l.label \in {"Récupération", "Echauffement"}
    \/ l.kind # "blank" /\ l.kind # "decomp" /\ MainBlockStart(l)

\* the line that ends the collection of a decomposed block's sub-lines
\* (lines 917-924 and 1056-1061): a raw line that is not empty, not indented and
\* does not match r'^\s*\d{1,2}:\d{2}\s+\d+\s*à'
SubContentBreak(l) ==
    l.kind # "blank" /\ ~l.indent /\ ~(l.kind = "plain" /\ l.label = "")

\* the index j at which the loop that collects the content of the repetition
\* declared on line at stops
RepeatCollectEnd(lines, at) ==
    LET stop == FirstIndex({k \in (at + 1)..Len(lines) : RepeatContentBreak(lines[k])})
    IN IF stop = 0 THEN Len(lines) + 1 ELSE stop

\* the index j at which the loop that collects the sub-lines of the decomposed
\* block opened on line at stops
SubCollectEnd(lines, at) ==
    LET stop == FirstIndex({k \in (at + 1)..Len(lines) : SubContentBreak(lines[k])})
    IN IF stop = 0 THEN Len(lines) + 1 ELSE stop

\* _parse_repeat_content
RECURSIVE RepeatContentFrom(_, _, _, _)
RepeatContentFrom(lines, at, ph, is_ht) ==
    IF at > Len(lines) THEN <<>>
    ELSE IF lines[at].kind = "blank"
    THEN RepeatContentFrom(lines, at + 1, ph, is_ht)
    ELSE IF DecomposedMatch(lines[at])
    THEN LET j == SubCollectEnd(lines, at)
         IN parse_decomposed_sub_intervals(Slice(lines, at + 1, j - 1),
                                           lines[at].position, is_ht, ph)
            \o RepeatContentFrom(lines, j, ph, is_ht)
    ELSE (IF SubIntervalMatch(lines[at])
          THEN <<TableInterval(lines[at], ph, is_ht, DetectPosition(lines[at]), FALSE)>>
          ELSE <<>>)
         \o RepeatContentFrom(lines, at + 1, ph, is_ht)

parse_repeat_content(lines, ph, is_ht) == RepeatContentFrom(lines, 1, ph, is_ht)

\* the list left as it is, the document's recovery intervals kept;
\* C2_HomeTrainerBlocks tells it from NonRecovery
KeepRecovery(ivs) == ivs

\* [iv for iv in intervals if iv["phase"] != "Récupération"]
RECURSIVE NonRecovery(_)
NonRecovery(ivs) ==
    IF ivs = <<>> THEN <<>>
    ELSE (IF Head(ivs).phase # "Récupération" THEN <<Head(ivs)>> ELSE <<>>)
         \o NonRecovery(Tail(ivs))

(***************************************************************************)
(* _parse_running_table_v3 and its helpers.  A line of a running table is  *)
(* the record of                                                           *)
(*   label      the phase label it holds, "" for none                      *)
(*   desc       "Allure faible à modérée" / "Allure modérée à faible", ""  *)
(*   pace       the pace range "a:bbàc:dd" it holds (NoPace for none)      *)
(*   duration   the duration it holds outside the pace range (NoDur: none) *)
(*   pace_first the pace range stands before the duration                  *)
(***************************************************************************)
Pace(raw, a, bb, c, dd) == [raw |-> raw, a |-> a, bb |-> bb, c |-> c, dd |-> dd]
NoPace == Pace("", 0, 0, 0, 0)

RunningLine(label, desc, pace, duration, pace_first) ==
    [label |-> label, desc |-> desc, pace |-> pace, duration |-> duration,
     pace_first |-> pace_first]

\* detect_running_phase that knows no label, only the pace descriptions;
\* C7_PhaseFollowsLabels tells the two apart
detect_running_phase_no_label(l) ==
    IF l.desc = "Allure faible à modérée" THEN "Echauffement"
    ELSE IF l.desc = "Allure modérée à faible" THEN "Récupération"
    ELSE IF l.pace # NoPace THEN "Corps de séance"
    ELSE ""

\* detect_running_phase; "" for None
detect_running_phase(l) ==
    IF l.label = "Echauffement" THEN "Echauffement"
    ELSE IF l.label = "Corps de séance" THEN "Corps de séance"
    ELSE IF l.label = "Récupération" THEN "Récupération"
    ELSE IF l.desc = "Allure faible à modérée" THEN "Echauffement"
    ELSE IF l.desc = "Allure modérée à faible" THEN "Récupération"
    ELSE IF l.pace # NoPace THEN "Corps de séance"
    ELSE ""

\* the dict parse_pace returns; error is TRUE when it raises ValueError instead
PaceParsed(error, raw, min_sec, max_sec, min_formatted, max_formatted) ==
    [error |-> error, raw |-> raw, min_pace_sec_per_km |-> min_sec,
     max_pace_sec_per_km |-> max_sec, min_formatted |-> min_formatted,
     max_formatted |-> max_formatted]

PaceError == PaceParsed(TRUE, "", 0, 0, NoDur, NoDur)

\* parse_pace without its check of the seconds (lines 259-260);
\* C17_MalformedPaceLineDropped tells the two apart
parse_pace_unchecked(pace) ==
    IF pace = NoPace THEN PaceError
    ELSE PaceParsed(FALSE, pace.raw, pace.a * 60 + pace.bb, pace.c * 60 + pace.dd,
                    Dur(1, pace.a, pace.bb), Dur(1, pace.c, pace.dd))

\* parse_pace
parse_pace(pace) ==
    IF pace = NoPace THEN PaceError
    ELSE IF pace.bb > 59 \/ pace.dd > 59 THEN PaceError
    ELSE PaceParsed(FALSE, pace.raw, pace.a * 60 + pace.bb, pace.c * 60 + pace.dd,
                    Dur(1, pace.a, pace.bb), Dur(1, pace.c, pace.dd))

\* re.search(r'(\d{1,2}:\d{2})(?!\s*à)', line): the first "d:dd" of the line that
\* no "à" follows; the upper bound of a pace range is one
RunningDurationMatch(l) ==
    IF l.duration # NoDur /\ ~(l.pace # NoPace /\ l.pace_first) THEN l.duration
    ELSE IF l.pace # NoPace THEN Dur(1, l.pace.c, l.pace.dd)
    ELSE l.duration

\* the dicts of _parse_running_table_v3; a key left out is "" (a string),
\* PaceError (pace_parsed) or 0 (the repetition tags, which it never sets)
RunningInterval(ph, pace, pace_description, duration) ==
    [phase |-> ph, pace_min_per_km |-> pace.raw, pace_parsed |-> parse_pace(pace),
     pace_description |-> pace_description, duration |-> duration,
     repetition_iteration |-> 0, repetition_total |-> 0]

\* what one turn of the loop of _parse_running_table_v3 appends, for the
\* current_phase cur that the turn has set
RunningLineIntervals(l, cur) ==
    IF l.pace # NoPace /\ RunningDurationMatch(l) # NoDur /\ cur # ""
    THEN IF parse_pace(l.pace).error THEN <<>>
         ELSE <<RunningInterval(cur, l.pace, "", RunningDurationMatch(l))>>
    ELSE IF l.desc # "" /\ RunningDurationMatch(l) # NoDur /\ cur # ""
    THEN <<RunningInterval(cur, NoPace, l.desc, RunningDurationMatch(l))>>
    ELSE <<>>

(***************************************************************************)
(* garmin_workout_converter.py                                             *)
(***************************************************************************)
SingleGroup(interval) == [type |-> "single", interval |-> interval]
RepeatGroup(iterations, steps) ==
    [type |-> "repeat", iterations |-> iterations, steps |-> steps]

\* "repetition_total" in interval and "repetition_iteration" in interval
HasRepetitionKeys(interval) ==
    interval.repetition_total # 0 /\ interval.repetition_iteration # 0

\* detect_repeat_groups, from index at of intervals on
RECURSIVE DetectFrom(_, _)
DetectFrom(ivs, at) ==
    IF at > Len(ivs) THEN <<>>
    ELSE IF HasRepetitionKeys(ivs[at])
    THEN LET repeat_total == ivs[at].repetition_total
             others == {k \in at..Len(ivs) :
                           ~(/\ ivs[k].repetition_total = repeat_total
                             /\ ivs[k].repetition_iteration # 0)}
             stop == IF others = {} THEN Len(ivs) + 1
                     ELSE CHOOSE k \in others : \A j \in others : k <= j
             group_intervals == SubSeq(ivs, at, stop - 1)
             steps_per_iteration == Len(group_intervals) \div repeat_total
         IN <<RepeatGroup(repeat_total, SubSeq(group_intervals, 1, steps_per_iteration))>>
            \o DetectFrom(ivs, stop)
    ELSE <<SingleGroup(ivs[at])>> \o DetectFrom(ivs, at + 1)

detect_repeat_groups(ivs) == DetectFrom(ivs, 1)

\* parse_duration_to_seconds, for the "m:ss" strings the parser emits
parse_duration_to_seconds(duration) == duration.m * 60 + duration.s

\* sum(parse_duration_to_seconds(interval['duration']) for interval in ...)
RECURSIVE TotalSeconds(_)
TotalSeconds(ivs) ==
    IF ivs = <<>> THEN 0
    ELSE parse_duration_to_seconds(Head(ivs).duration) + TotalSeconds(Tail(ivs))

\* the tests in another order, 'récup' before 'cup'; C23_StepKindFromPhase
\* tells the two apart
StepTypeRestFirst(ph) ==
    LET lowered == Lower(ph) IN
    IF Contains(lowered, "chauffement") \/ Contains(lowered, "warmup")
    THEN [stepTypeId |-> 1, stepTypeKey |-> "warmup"]
    ELSE IF Contains(lowered, "repos") \/ Contains(lowered, "récup")
            \/ Contains(lowered, "rest")
    THEN [stepTypeId |-> 4, stepTypeKey |-> "rest"]
    ELSE IF Contains(lowered, "cup") \/ Contains(lowered, "cooldown")
    THEN [stepTypeId |-> 5, stepTypeKey |-> "cooldown"]
    ELSE [stepTypeId |-> 3, stepTypeKey |-> "interval"]

\* the step type chosen from the phase (lines 195-207 and 373-385)
StepType(ph) ==
    LET lowered == Lower(ph) IN
    IF Contains(lowered, "chauffement") \/ Contains(lowered, "warmup")
    THEN [stepTypeId |-> 1, stepTypeKey |-> "warmup"]
    ELSE IF Contains(lowered, "cup") \/ Contains(lowered, "cooldown")
    THEN [stepTypeId |-> 5, stepTypeKey |-> "cooldown"]
    ELSE IF Contains(lowered, "repos") \/ Contains(lowered, "récup")
            \/ Contains(lowered, "rest")
    THEN [stepTypeId |-> 4, stepTypeKey |-> "rest"]
    ELSE [stepTypeId |-> 3, stepTypeKey |-> "interval"]

\* one part of a step's description: the text prefix + value + suffix; the
\* description is the sequence of the parts that " - ".join() strings together
DescriptionPart(prefix, value, suffix) ==
    [prefix |-> prefix, value |-> value, suffix |-> suffix]

\* create_cycling_step; description is <<>> and childStepId is 0 when the key
\* is not set.  The power strings converted are ranges "lo à hi" or one number.
create_cycling_step(step_order, interval) ==
    [type |-> "ExecutableStepDTO",
     stepOrder |-> step_order,
     stepType |-> StepType(interval.phase),
     endCondition |-> [conditionTypeId |-> 2, conditionTypeKey |-> "time"],
     endConditionValue |-> parse_duration_to_seconds(interval.duration),
     targetType |-> [workoutTargetTypeId |-> 2, workoutTargetTypeKey |-> "power.zone"],
     targetValueOne |-> interval.power_watts.lo,
     targetValueTwo |-> interval.power_watts.hi,
     description |->
         (IF interval.position # ""
          THEN <<DescriptionPart("", interval.position, "")>> ELSE <<>>)
         \o (IF interval.cadence_rpm # "" /\ interval.cadence_rpm # "libre"
             THEN <<DescriptionPart("Cadence: ", interval.cadence_rpm, " rpm")>>
             ELSE <<>>),
     childStepId |-> 0]

\* create_running_step
create_running_step(step_order, interval) ==
    [type |-> "ExecutableStepDTO",
     stepOrder |-> step_order,
     stepType |-> StepType(interval.phase),
     endCondition |-> [conditionTypeId |-> 2, conditionTypeKey |-> "time"],
     endConditionValue |-> parse_duration_to_seconds(interval.duration),
     targetType |-> [workoutTargetTypeId |-> 1, workoutTargetTypeKey |-> "no.target"],
     description |->
         (IF interval.pace_description # ""
          THEN <<DescriptionPart("", interval.pace_description, "")>> ELSE <<>>)
         \o (IF interval.pace_min_per_km # ""
             THEN <<DescriptionPart("Allure: ", interval.pace_min_per_km, "")>>
             ELSE <<>>),
     childStepId |-> 0]

\* create_repeat_group_step
create_repeat_group_step(step_order, child_step_id, iterations, nested_steps) ==
    [type |-> "RepeatGroupDTO",
     stepOrder |-> step_order,
     stepType |-> [stepTypeId |-> 6, stepTypeKey |-> "repeat"],
     childStepId |-> child_step_id,
     numberOfIterations |-> iterations,
     smartRepeat |-> FALSE,
     workoutSteps |-> nested_steps]

\* the step builder of a sport
CreateStep(sport, step_order, interval) ==
    IF sport = "cycling" THEN create_cycling_step(step_order, interval)
    ELSE create_running_step(step_order, interval)

\* the loop "for group in repeat_groups" of the two convert functions, from
\* group at on, with the loop's step_order and child_step_id
RECURSIVE WorkoutSteps(_, _, _, _, _)
WorkoutSteps(sport, groups, at, step_order, child_step_id) ==
    IF at > Len(groups) THEN <<>>
    ELSE IF groups[at].type = "single"
    THEN <<CreateStep(sport, step_order + 1, groups[at].interval)>>
         \o WorkoutSteps(sport, groups, at + 1, step_order + 1, child_step_id)
    ELSE LET steps == groups[at].steps
             nested_steps ==
                 [k \in 1..Len(steps) |->
                     [CreateStep(sport, step_order + k, steps[k])
                         EXCEPT !.childStepId = child_step_id + 1]]
         IN <<create_repeat_group_step(step_order + Len(steps), child_step_id + 1,
                                       groups[at].iterations, nested_steps)>>
            \o WorkoutSteps(sport, groups, at + 1, step_order + Len(steps),
                            child_step_id + 1)

GarminWorkout(name, total_seconds, sport_id, sport_key, workout_steps) ==
    [workoutName |-> name,
     estimatedDurationInSecs |-> total_seconds,
     sportType |-> [sportTypeId |-> sport_id, sportTypeKey |-> sport_key,
                    displayOrder |-> sport_id],
     workoutSegments |->
         << [segmentOrder |-> 1,
             sportType |-> [sportTypeId |-> sport_id, sportTypeKey |-> sport_key],
             workoutSteps |-> workout_steps] >>]

convert_to_garmin_cycling_workout(w) ==
    GarminWorkout(w.code, TotalSeconds(w.intervals), 2, "cycling",
                  WorkoutSteps("cycling", detect_repeat_groups(w.intervals), 1, 0, 0))

convert_to_garmin_running_workout(w) ==
    GarminWorkout(w.code, TotalSeconds(w.intervals), 1, "running",
                  WorkoutSteps("running", detect_repeat_groups(w.intervals), 1, 0, 0))

(***************************************************************************)
(* The upload scripts (scripts/upload_weekly_workouts.py,                  *)
(* scripts/clawdbot_workflow.py, scripts/upload_all_cycling.py) and        *)
(* GarminService.upload_workout (api/services/garmin_service.py).          *)
(* A workout of a batch is the dict of the parser: its code, type, date    *)
(* and intervals (no intervals, or none of the key, is <<>>).              *)
(***************************************************************************)
BatchWorkout(code, type, date, ivs) ==
    [code |-> code, type |-> type, date |-> date, intervals |-> ivs]

\* the entries of the lists uploaded, skipped and errors; a key a script
\* leaves out is ""
UploadedEntry(code, type, date, workout_id, name) ==
    [code |-> code, type |-> type, date |-> date, workout_id |-> workout_id, name |-> name]
SkippedEntry(code, date, reason) == [code |-> code, date |-> date, reason |-> reason]
ErrorEntry(code, date, error) == [code |-> code, date |-> date, error |-> error]

\* one call of garmin.client.upload_workout: the payload, and whether the
\* service took it (ok) or the call raised
Sent(payload, ok) == [payload |-> payload, ok |-> ok]

\* create_cycling_step raises ValueError on a power that is no number
\* (int(power_str), lines 210-217 of garmin_workout_converter.py)
ConversionRaises(w, sport) ==
    /\ sport = "cycling"
    /\ \E k \in DOMAIN w.intervals : w.intervals[k].power_watts.kind \notin {"range", "single"}

\* what a try block that converts a workout and uploads it gives: the message
\* of the exception raised ("": none), the call made to the client, and the
\* workoutId and workoutName of the response; workout_id is the id the
\* service gives when it takes the workout
Outcome(raised, calls, workout_id, name) ==
    [raised |-> raised, sent |-> calls, workoutId |-> workout_id, workoutName |-> name]

ConvertAndUpload(w, sport, ok, workout_id) ==
    IF ConversionRaises(w, sport)
    THEN Outcome("invalid literal for int()", <<>>, 0, "")
    ELSE LET payload == IF sport = "cycling"
                        THEN convert_to_garmin_cycling_workout(w)
                        ELSE convert_to_garmin_running_workout(w)
         IN IF ok THEN Outcome("", <<Sent(payload, TRUE)>>, workout_id, payload.workoutName)
            ELSE Outcome("upload failed", <<Sent(payload, FALSE)>>, 0, "")

\* the branch GarminService.upload_workout takes for workout_json['type'].lower():
\* 'cyclisme' or 'cycling' in it, 'course à pied' or 'running' in it, or neither
ServiceSport(type) ==
    CASE type = "Cyclisme" -> "cycling"
      [] type = "Course à pied" -> "running"
      [] OTHER -> ""

UnsupportedType(type) ==
    CASE type = "Natation" -> "Type de workout non supporté: natation"
      [] OTHER -> "Type de workout non supporté: "

\* GarminService.upload_workout(workout_json): it returns the response of the
\* service, or raises
GarminService_upload_workout(w, ok, workout_id) ==
    IF ServiceSport(w.type) = ""
    THEN Outcome(UnsupportedType(w.type), <<>>, 0, "")
    ELSE ConvertAndUpload(w, ServiceSport(w.type), ok, workout_id)

\* the upload calls of a try block, as events of the loop
UploadCalls(calls) == [k \in DOMAIN calls |-> "upload_workout"]

\* [w for w in workouts if w['type'] == type]
OfType(ws, type) == SelectSeq(ws, LAMBDA w : w.type = type)

(***************************************************************************)
(* find_workout_sections and parse.  The text of the document is the       *)
(* sequence of its tokens, and an offset in it is the index of a token.    *)
(* A token is one of                                                       *)
(*   a code          "C16", "CAP12", "N5": what (C\d+), (CAP\d+), (N\d+)   *)
(*                   can match;                                            *)
(*   a parenthetical "(... le matin)", which \([^)]*le matin\) and         *)
(*                   \([^)]*\) match, or "(... le soir)", which only       *)
(*                   \([^)]*\) matches;                                    *)
(*   a word          text no pattern matches.                              *)
(* Tokens are separated by white space, and so are pages ("\n\n"), which   *)
(* the \s* of the patterns steps over.                                     *)
(***************************************************************************)
Token(kind, s) == [kind |-> kind, s |-> s]

CodeTokens == {Token("code", "C16"), Token("code", "CAP12"), Token("code", "N5")}
ParenTokens == {Token("paren", "(Lundi 02/02, le matin)"),
                Token("paren", "(Lundi 02/02, le soir)")}
WordTokens == {Token("word", "Séance")}

\* the prefix of a code decides which of (C\d+), (CAP\d+), (N\d+) matches it
CodePrefix(code) ==
    IF code = "C16" THEN "C" ELSE IF code = "CAP12" THEN "CAP" ELSE "N"

\* \([^)]*le matin\) at token t
MatinParenMatch(t) == t = Token("paren", "(Lundi 02/02, le matin)")
\* \([^)]*\) at token t
AnyParenMatch(t) == t.kind = "paren"

\* workout_patterns: the prefix of the code, the parenthetical wanted behind
\* it (TRUE: one that ends with "le matin"), and the workout type
Pattern(prefix, matin, workout_type) ==
    [prefix |-> prefix, matin |-> matin, workout_type |-> workout_type]

workout_patterns ==
    << Pattern("C", TRUE, "cycling"),
       Pattern("CAP", TRUE, "running"),
       Pattern("N", FALSE, "swimming") >>

\* the pattern matches at offset k of the text
PatternMatchAt(pattern, txt, k) ==
    /\ txt[k].kind = "code"
    /\ CodePrefix(txt[k].s) = pattern.prefix
    /\ k + 1 <= Len(txt)
    /\ IF pattern.matin THEN MatinParenMatch(txt[k + 1]) ELSE AnyParenMatch(txt[k + 1])

Position(start_idx, code, workout_type) ==
    [start_idx |-> start_idx, code |-> code, workout_type |-> workout_type]

\* the tuples one pattern adds to all_workout_positions: re.finditer from offset k
RECURSIVE PatternPositions(_, _, _)
PatternPositions(pattern, txt, k) ==
    IF k > Len(txt) THEN <<>>
    ELSE IF PatternMatchAt(pattern, txt, k)
    THEN <<Position(k, txt[k].s, pattern.workout_type)>>
             \o PatternPositions(pattern, txt, k + 2)
    ELSE PatternPositions(pattern, txt, k + 1)

\* all_workout_positions before it is sorted: pattern after pattern
RECURSIVE CollectPositions(_, _)
CollectPositions(patterns, txt) ==
    IF patterns = <<>> THEN <<>>
    ELSE PatternPositions(Head(patterns), txt, 1) \o CollectPositions(Tail(patterns), txt)

\* list.sort(key=lambda x: x[0]): a stable sort on start_idx
RECURSIVE InsertPosition(_, _)
InsertPosition(sorted, p) ==
    IF sorted = <<>> THEN <<p>>
    ELSE IF Head(sorted).start_idx <= p.start_idx
    THEN <<Head(sorted)>> \o InsertPosition(Tail(sorted), p)
    ELSE <<p>> \o sorted

\* all_workout_positions left as the patterns filled it, cycling first;
\* C13_SectionsAreSpans tells the two apart
KeepPositions(ps) == ps

RECURSIVE SortPositions(_)
SortPositions(ps) ==
    IF ps = <<>> THEN <<>>
    ELSE InsertPosition(SortPositions(SubSeq(ps, 1, Len(ps) - 1)), ps[Len(ps)])

Section(code, workout_type, section_text) ==
    [code |-> code, workout_type |-> workout_type, text |-> section_text]

\* the loop that cuts all_text at the positions: section n runs from its
\* start_idx to the start_idx of the next position, the last one to the end
SectionsOf(positions, txt) ==
    [n \in 1..Len(positions) |->
        LET end_idx == IF n + 1 <= Len(positions) THEN positions[n + 1].start_idx
                       ELSE Len(txt) + 1
        IN Section(positions[n].code, positions[n].workout_type,
                   SubSeq(txt, positions[n].start_idx, end_idx - 1))]

\* find_workout_sections that keeps the first section of a code only;
\* C15_DuplicatesKept tells the two apart
find_workout_sections_unique(txt) ==
    LET all == SectionsOf(SortPositions(CollectPositions(workout_patterns, txt)), txt)
    IN SelectSeq(all, LAMBDA sec :
           sec = all[CHOOSE n \in 1..Len(all) :
                         /\ all[n].code = sec.code
                         /\ \A m \in 1..(n - 1) : all[m].code # sec.code])

\* find_workout_sections, once all_text is read
find_workout_sections(txt) ==
    SectionsOf(SortPositions(CollectPositions(workout_patterns, txt)), txt)

\* the dict parse_cycling_workout, parse_running_workout or parse_swimming_workout
\* returns: its code, its type, and the section text in the place of the fields
\* read from it (date, duration_total, intervals, notes, ...)
WorkoutRecord(code, type, section_text) ==
    [code |-> code, type |-> type, text |-> section_text]

parse_cycling_workout(code, section_text) == WorkoutRecord(code, "Cyclisme", section_text)
parse_running_workout(code, section_text) == WorkoutRecord(code, "Course à pied", section_text)
parse_swimming_workout(code, section_text) == WorkoutRecord(code, "Natation", section_text)

\* the body of the loop of parse on one section: the workouts it appends
ParseSection(section) ==
    IF section.workout_type = "cycling"
    THEN <<parse_cycling_workout(section.code, section.text)>>
    ELSE IF section.workout_type = "running"
    THEN <<parse_running_workout(section.code, section.text)>>
    ELSE IF section.workout_type = "swimming"
    THEN <<parse_swimming_workout(section.code, section.text)>>
    ELSE <<>>

(***************************************************************************)
(* The inputs: arguments of adjust_power_for_garmin, and texts.            *)
(***************************************************************************)
\* the watts a drawn power string can hold: 130, 140, ...
PowerValues == {130 + 10 * k : k \in 0..MaxPowerStep}

PowerStrings ==
    {Range(lo, hi) : lo \in PowerValues, hi \in PowerValues}
        \cup {Single(w) : w \in PowerValues} \cup {Text("libre")}

WarmupIndexes == {NoIndex} \cup {Index(n) : n \in -1..(Len(HT_WARMUP_STANDARD) + 1)}

NoPowerData == PowerData(Text(""), Text(""), Watts(0), "")

\* the lines a text is made of
TextLines ==
    { LabelLine("Echauffement"),
      LabelLine("Corps de séance"),
      LabelLine("Récupération"),
      PlainLine("Récupération", FALSE, Dur(2, 5, 0), "80à85", Range(150, 160)),
      PlainLine("Corps de séance", FALSE, Dur(2, 6, 0), "70à75", Range(220, 230)),
      PlainLine("", FALSE, Dur(2, 3, 0), "70à75", Range(220, 230)),
      PlainLine("", FALSE, Dur(1, 1, 0), "90à95", Range(260, 270)),
      PlainLine("", TRUE, Dur(2, 1, 30), "85à90", Range(240, 250)),
      PosLine("", FALSE, Dur(2, 2, 0), 0, "Position aéro.", "80à85", Range(160, 170)),
      PosLine("", FALSE, Dur(2, 8, 0), 3, "Position aéro.", "80à85", Range(200, 210)),
      DecompLine(Dur(2, 4, 0), 1, "Position haute") }
        \cup {RepLine(n, segs) : n \in 2..MaxRepeat, segs \in 1..2}

Texts == UNION {[1..len -> TextLines] : len \in 0..MaxLines}

\* the lines a running table is made of
RunningTextLines ==
    { RunningLine("Echauffement", "", NoPace, NoDur, FALSE),
      RunningLine("Corps de séance", "", NoPace, NoDur, FALSE),
      RunningLine("Récupération", "", NoPace, NoDur, FALSE),
      RunningLine("", "Allure faible à modérée", NoPace, Dur(2, 15, 0), FALSE),
      RunningLine("", "Allure modérée à faible", NoPace, Dur(2, 10, 0), FALSE),
      RunningLine("Récupération", "Allure modérée à faible", NoPace, Dur(2, 5, 0), FALSE),
      RunningLine("", "", Pace("4:45à4:50", 4, 45, 4, 50), Dur(2, 20, 0), FALSE),
      RunningLine("", "", Pace("5:10à5:20", 5, 10, 5, 20), Dur(1, 8, 0), TRUE),
      RunningLine("", "", Pace("4:70à4:80", 4, 70, 4, 80), Dur(2, 12, 0), FALSE) }

RunningTexts == UNION {[1..len -> RunningTextLines] : len \in 0..MaxLines}

\* the intervals the converter is given are intervals the parsers emit
BodyIntervalA ==
    TableInterval(PlainLine("", FALSE, Dur(2, 3, 0), "70à75", Range(220, 230)),
                  "Corps de séance", FALSE, "Position aéro", FALSE)
BodyIntervalB ==
    TableInterval(PlainLine("", FALSE, Dur(1, 1, 0), "90à95", Range(260, 270)),
                  "Corps de séance", FALSE, "", FALSE)

\* a segment: one interval, or an expanded repetition block
CyclingSegments ==
    { <<HTWarmupIntervals[1]>>, <<BodyIntervalA>>, <<BodyIntervalB>>,
      <<HTRecoveryIntervals[1]>> }
        \cup { ExpandRepetition(pattern, n, 1) :
                   pattern \in { <<BodyIntervalA>>, <<BodyIntervalB>>,
                                 <<BodyIntervalA, BodyIntervalB>> },
                   n \in 2..MaxRepeat }

RunningSegments ==
    { <<RunningInterval("Echauffement", NoPace, "Allure faible à modérée", Dur(2, 15, 0))>>,
      <<RunningInterval("Corps de séance", Pace("4:45à4:50", 4, 45, 4, 50), "",
                        Dur(2, 20, 0))>>,
      <<RunningInterval("Récupération", NoPace, "Allure modérée à faible", Dur(2, 10, 0))>> }

RECURSIVE Flatten(_)
Flatten(segments) ==
    IF segments = <<>> THEN <<>> ELSE Head(segments) \o Flatten(Tail(segments))

IntervalLists(segments) ==
    {Flatten(ss) : ss \in UNION {[1..len -> segments] : len \in 0..MaxSegments}}

Workout(code, ivs) == [code |-> code, intervals |-> ivs]
NoWorkout == Workout("", <<>>)
NoGarminWorkout == GarminWorkout("", 0, 0, "", <<>>)

CyclingWorkouts == {Workout("C16", ivs) : ivs \in IntervalLists(CyclingSegments)}
RunningWorkouts == {Workout("CAP12", ivs) : ivs \in IntervalLists(RunningSegments)}

\* the documents parse is given: a text of tokens cut into pages, with at most
\* one page whose text cannot be extracted
Tokens == CodeTokens \cup ParenTokens \cup WordTokens
TokenTexts == UNION {[1..len -> Tokens] : len \in 0..MaxTokens}

Page(page_text, readable) == [text |-> page_text, readable |-> readable]

\* the cuts of a text into n pages: where each page but the last ends
Cuts(txt, n) ==
    {c \in [1..(n - 1) -> 0..Len(txt)] : \A k \in 1..(n - 2) : c[k] <= c[k + 1]}

PagesOf(txt, n, cuts, unreadable) ==
    [k \in 1..n |->
        Page(SubSeq(txt, (IF k = 1 THEN 0 ELSE cuts[k - 1]) + 1,
                    IF k = n THEN Len(txt) ELSE cuts[k]),
             k # unreadable)]

\* the workouts of the batches handed to the upload scripts
LibreInterval ==
    Interval("Corps de séance", Dur(2, 5, 0), "libre",
             PowerData(Text("libre"), Text("libre"), Watts(0), ""), "", "", FALSE)

BatchWorkouts ==
    { BatchWorkout("C16", "Cyclisme", "2026-02-02", <<BodyIntervalA>>),
      BatchWorkout("C17", "Cyclisme", "2026-02-03", <<>>),
      BatchWorkout("C18", "Cyclisme", "2026-02-04", <<LibreInterval>>),
      BatchWorkout("CAP12", "Course à pied", "2026-02-05",
                   <<RunningInterval("Corps de séance", Pace("4:45à4:50", 4, 45, 4, 50), "",
                                     Dur(2, 20, 0))>>),
      BatchWorkout("CAP13", "Course à pied", "2026-02-06", <<>>),
      BatchWorkout("N5", "Natation", "2026-02-07", <<>>) }

Batches == UNION {[1..len -> BatchWorkouts] : len \in 0..MaxBatch}

UploadScripts == {"upload_weekly_workouts", "clawdbot_workflow.upload_workouts",
                  "upload_all_cycling"}

ParserOps == {"adjust_power_for_garmin", "_parse_cycling_full_text",
              "_parse_mixed_intervals", "_parse_cycling_table_v3_with_ht_rules",
              "_parse_running_table_v3"}
ConverterOps == {"detect_repeat_groups", "convert_to_garmin_cycling_workout",
                 "convert_to_garmin_running_workout"}
Ops == ParserOps \cup ConverterOps

(***************************************************************************)
(* The state machine: one call of one function of the parser.              *)
(***************************************************************************)
\* the variables of the functions that are not called
NoParserCall ==
    /\ power_str = Text("") /\ phase = "" /\ is_home_trainer = FALSE
    /\ warmup_index = NoIndex /\ power_data = NoPowerData
    /\ text = <<>> /\ intervals = <<>> /\ current_phase = ""
NoConversion ==
    workout_json = NoWorkout /\ repeat_groups = <<>> /\ garmin_workout = NoGarminWorkout
NoDocument ==
    pages = <<>> /\ all_text = <<>> /\ sections = <<>> /\ workouts = <<>> /\ printed = <<>>
NoResults == [code \in {} |-> FALSE]
NoUpload ==
    /\ uploaded = <<>> /\ skipped = <<>> /\ errors = <<>> /\ sent = <<>> /\ exception = ""
    /\ events = <<>> /\ results = NoResults

Init ==
    /\ op \in Ops
    /\ pc = "call"
    /\ NoDocument
    /\ NoUpload
    /\ power_data = NoPowerData
    /\ intervals = <<>>
    /\ i = 0
    /\ current_phase = ""
    /\ repeat_groups = <<>>
    /\ garmin_workout = NoGarminWorkout
    /\ workout_json \in IF op = "convert_to_garmin_running_workout" THEN RunningWorkouts
                        ELSE IF op \in ConverterOps THEN CyclingWorkouts
                        ELSE {NoWorkout}
    /\ is_home_trainer \in IF op \in ConverterOps \cup {"_parse_running_table_v3"}
                           THEN {FALSE} ELSE BOOLEAN
    /\ IF op = "adjust_power_for_garmin"
       THEN /\ power_str \in PowerStrings
            /\ phase \in PhaseStrings
            /\ warmup_index \in WarmupIndexes
            /\ text = <<>>
       ELSE /\ power_str = Text("")
            \* _parse_mixed_intervals is only called with phase "Corps de séance"
            /\ phase = IF op = "_parse_mixed_intervals" THEN "Corps de séance" ELSE ""
            /\ warmup_index = NoIndex
            /\ text \in IF op \in ConverterOps THEN {<<>>}
                         ELSE IF op = "_parse_running_table_v3" THEN RunningTexts
                         ELSE Texts

\* adjust_power_for_garmin(power_str, phase, is_home_trainer, warmup_index)
AdjustPower ==
    /\ op = "adjust_power_for_garmin"
    /\ pc = "call"
    /\ power_data' = adjust_power_for_garmin(power_str, phase, is_home_trainer, warmup_index)
    /\ pc' = "done"
    /\ UNCHANGED <<documentVars, uploadVars, converterVars, power_str, phase, is_home_trainer, warmup_index,
                   text, intervals, i, current_phase, op>>

\* _parse_cycling_full_text(text, is_home_trainer)
ParseCyclingFullText ==
    /\ op = "_parse_cycling_full_text"
    /\ pc = "call"
    /\ intervals' = parse_cycling_full_text(text, is_home_trainer)
    /\ pc' = "done"
    /\ UNCHANGED <<documentVars, uploadVars, converterVars, power_str, phase, is_home_trainer, warmup_index, power_data,
                   text, i, current_phase, op>>

\* _parse_mixed_intervals(text, phase, is_home_trainer)
ParseMixedIntervals ==
    /\ op = "_parse_mixed_intervals"
    /\ pc = "call"
    /\ intervals' = parse_mixed_intervals(text, phase, is_home_trainer)
    /\ pc' = "done"
    /\ UNCHANGED <<documentVars, uploadVars, converterVars, power_str, phase, is_home_trainer, warmup_index, power_data,
                   text, i, current_phase, op>>

\* _parse_cycling_table_v3_with_ht_rules(table_text, is_home_trainer), up to its loop
TableBegin ==
    /\ op = "_parse_cycling_table_v3_with_ht_rules"
    /\ pc = "call"
    /\ intervals' = IF is_home_trainer THEN HTWarmupIntervals ELSE <<>>
    /\ current_phase' = "Echauffement"
    /\ i' = 1
    /\ pc' = "loop"
    /\ UNCHANGED <<documentVars, uploadVars, converterVars, power_str, phase, is_home_trainer, warmup_index, power_data, text, op>>

TableLoop ==
    op = "_parse_cycling_table_v3_with_ht_rules" /\ pc = "loop" /\ i <= Len(text)

TableFrame == UNCHANGED <<documentVars, uploadVars, converterVars, power_str, phase, is_home_trainer, warmup_index, power_data,
                          text, op, pc>>

\* one turn of the loop on a line that holds a phase label
TablePhaseLine ==
    /\ TableLoop
    /\ TablePhaseLabel(text[i]) # ""
    /\ current_phase' = TablePhaseLabel(text[i])
    /\ i' = i + 1
    /\ UNCHANGED intervals
    /\ TableFrame

\* one turn of the loop on a warmup line of a home-trainer workout
TableSkipWarmupLine ==
    /\ TableLoop
    /\ TablePhaseLabel(text[i]) = ""
    /\ current_phase = "Echauffement" /\ is_home_trainer
    /\ i' = i + 1
    /\ UNCHANGED <<intervals, current_phase>>
    /\ TableFrame

TableDataLine ==
    /\ TableLoop
    /\ TablePhaseLabel(text[i]) = ""
    /\ ~(current_phase = "Echauffement" /\ is_home_trainer)

\* one turn of the loop on a repetition declaration
TableRepetition ==
    /\ TableDataLine
    /\ RepetitionMatch(text[i])
    /\ LET j == RepeatCollectEnd(text, i)
           single == parse_repeat_content(Slice(text, i + 1, j - 1), current_phase,
                                          is_home_trainer)
       IN /\ intervals' = intervals \o ExpandRepetition(single, text[i].n, 1)
          /\ i' = j
    /\ UNCHANGED current_phase
    /\ TableFrame

\* one turn of the loop on the parent line of a decomposed block
TableDecomposed ==
    /\ TableDataLine
    /\ ~RepetitionMatch(text[i])
    /\ DecomposedMatch(text[i])
    /\ LET j == SubCollectEnd(text, i)
       IN /\ intervals' = intervals \o
                 parse_decomposed_sub_intervals(Slice(text, i + 1, j - 1),
                     text[i].position, is_home_trainer, current_phase)
          /\ i' = j
    /\ UNCHANGED current_phase
    /\ TableFrame

\* one turn of the loop on any other line
TablePlainLine ==
    /\ TableDataLine
    /\ ~RepetitionMatch(text[i])
    /\ ~DecomposedMatch(text[i])
    /\ intervals' = intervals \o
           (IF SubIntervalMatch(text[i])
            THEN <<TableInterval(text[i], current_phase, is_home_trainer,
                                 DetectPosition(text[i]), FALSE)>>
            ELSE <<>>)
    /\ i' = i + 1
    /\ UNCHANGED current_phase
    /\ TableFrame

\* after the loop: the forced home-trainer recovery, and the return
TableFinish ==
    /\ op = "_parse_cycling_table_v3_with_ht_rules"
    /\ pc = "loop"
    /\ i > Len(text)
    /\ intervals' = IF is_home_trainer
                    THEN NonRecovery(intervals) \o HTRecoveryIntervals
                    ELSE intervals
    /\ pc' = "done"
    /\ UNCHANGED <<documentVars, uploadVars, converterVars, power_str, phase, is_home_trainer, warmup_index, power_data,
                   text, i, current_phase, op>>

\* _parse_running_table_v3(table_text), up to its loop
RunningBegin ==
    /\ op = "_parse_running_table_v3"
    /\ pc = "call"
    /\ intervals' = <<>>
    /\ current_phase' = ""
    /\ i' = 1
    /\ pc' = "loop"
    /\ UNCHANGED <<documentVars, uploadVars, converterVars, power_str, phase, is_home_trainer, warmup_index, power_data, text, op>>

\* one turn of the loop of _parse_running_table_v3
RunningTurn ==
    /\ op = "_parse_running_table_v3"
    /\ pc = "loop"
    /\ i <= Len(text)
    /\ current_phase' = IF detect_running_phase(text[i]) # ""
                        THEN detect_running_phase(text[i])
                        ELSE current_phase
    /\ intervals' = intervals \o RunningLineIntervals(text[i], current_phase')
    /\ i' = i + 1
    /\ UNCHANGED <<documentVars, uploadVars, converterVars, power_str, phase, is_home_trainer, warmup_index, power_data,
                   text, op, pc>>

\* the return of _parse_running_table_v3
RunningFinish ==
    /\ op = "_parse_running_table_v3"
    /\ pc = "loop"
    /\ i > Len(text)
    /\ pc' = "done"
    /\ UNCHANGED <<documentVars, uploadVars, converterVars, power_str, phase, is_home_trainer, warmup_index, power_data,
                   text, intervals, i, current_phase, op>>

\* detect_repeat_groups(intervals)
DetectRepeatGroups ==
    /\ op = "detect_repeat_groups"
    /\ pc = "call"
    /\ repeat_groups' = detect_repeat_groups(workout_json.intervals)
    /\ pc' = "done"
    /\ UNCHANGED <<documentVars, uploadVars, parserVars, workout_json, garmin_workout, op>>

\* convert_to_garmin_cycling_workout(workout_json)
ConvertCycling ==
    /\ op = "convert_to_garmin_cycling_workout"
    /\ pc = "call"
    /\ repeat_groups' = detect_repeat_groups(workout_json.intervals)
    /\ garmin_workout' = convert_to_garmin_cycling_workout(workout_json)
    /\ pc' = "done"
    /\ UNCHANGED <<documentVars, uploadVars, parserVars, workout_json, op>>

\* convert_to_garmin_running_workout(workout_json)
ConvertRunning ==
    /\ op = "convert_to_garmin_running_workout"
    /\ pc = "call"
    /\ repeat_groups' = detect_repeat_groups(workout_json.intervals)
    /\ garmin_workout' = convert_to_garmin_running_workout(workout_json)
    /\ pc' = "done"
    /\ UNCHANGED <<documentVars, uploadVars, parserVars, workout_json, op>>

Next ==
    \/ AdjustPower
    \/ ParseCyclingFullText
    \/ ParseMixedIntervals
    \/ TableBegin
    \/ TablePhaseLine
    \/ TableSkipWarmupLine
    \/ TableRepetition
    \/ TableDecomposed
    \/ TablePlainLine
    \/ TableFinish
    \/ RunningBegin
    \/ RunningTurn
    \/ RunningFinish
    \/ DetectRepeatGroups
    \/ ConvertCycling
    \/ ConvertRunning

Spec == Init /\ [][Next]_vars

(***************************************************************************)
(* The state machine of parse(): find_workout_sections reads the pages,    *)
(* locates the sections, and parse turns each section into a workout.      *)
(***************************************************************************)
DocInit ==
    /\ op = "parse"
    /\ pc = "call"
    /\ i = 0
    /\ \E txt \in TokenTexts, n \in 0..MaxPages :
           /\ n = 0 => txt = <<>>
           /\ \E cuts \in Cuts(txt, n), unreadable \in 0..n :
                  pages = PagesOf(txt, n, cuts, unreadable)
    /\ all_text = <<>> /\ sections = <<>> /\ workouts = <<>> /\ printed = <<>>
    /\ NoParserCall
    /\ NoConversion
    /\ NoUpload

DocFrame == UNCHANGED <<uploadVars, converterVars, power_str, phase, is_home_trainer,
                        warmup_index, power_data, text, intervals, current_phase, op>>

\* parse up to the loop over the pages in find_workout_sections
ParseBegin ==
    /\ op = "parse"
    /\ pc = "call"
    /\ workouts' = <<>>
    /\ sections' = <<>>
    /\ all_text' = <<>>
    /\ i' = 1
    /\ pc' = "pages"
    /\ UNCHANGED <<pages, printed>>
    /\ DocFrame

\* a loop over the pages that takes a page without text for an empty one;
\* C18_ExtractionFailureIsFatal tells the two apart
ExtractPageOrNothing ==
    /\ op = "parse"
    /\ pc = "pages"
    /\ i <= Len(pages)
    /\ all_text' = all_text \o (IF pages[i].readable THEN pages[i].text ELSE <<>>)
    /\ i' = i + 1
    /\ UNCHANGED <<pages, printed, sections, workouts, pc>>
    /\ DocFrame

\* all_text += page.extract_text() + "\n\n"
ExtractPage ==
    /\ op = "parse"
    /\ pc = "pages"
    /\ i <= Len(pages)
    /\ pages[i].readable
    /\ all_text' = all_text \o pages[i].text
    /\ i' = i + 1
    /\ UNCHANGED <<pages, printed, sections, workouts, pc>>
    /\ DocFrame

\* page.extract_text() raises: nothing in find_workout_sections or in parse
\* catches it, and parse returns nothing
ExtractPageRaises ==
    /\ op = "parse"
    /\ pc = "pages"
    /\ i <= Len(pages)
    /\ ~pages[i].readable
    /\ pc' = "raised"
    /\ exception' = "extract_text"
    /\ UNCHANGED <<pages, printed, all_text, sections, workouts, i>>
    /\ UNCHANGED <<uploaded, skipped, errors, sent, events, results, converterVars, power_str, phase,
                   is_home_trainer, warmup_index, power_data, text, intervals,
                   current_phase, op>>

\* the rest of find_workout_sections: the positions, the sort, the sections
LocateSections ==
    /\ op = "parse"
    /\ pc = "pages"
    /\ i > Len(pages)
    /\ sections' = find_workout_sections(all_text)
    /\ i' = 1
    /\ pc' = "sections"
    /\ UNCHANGED <<pages, printed, all_text, workouts>>
    /\ DocFrame

\* the body of the loop of parse without its except clause: the exception of
\* a section parser leaves parse; C25_SectionFailureIsolated tells the two apart
ParseTurnUncaught ==
    /\ op = "parse"
    /\ pc = "sections"
    /\ i <= Len(sections)
    /\ \E raised \in BOOLEAN :
          IF raised
          THEN /\ exception' = "parse_workout"
               /\ pc' = "raised"
               /\ UNCHANGED workouts
          ELSE /\ workouts' = workouts \o ParseSection(sections[i])
               /\ UNCHANGED <<exception, pc>>
    /\ i' = i + 1
    /\ UNCHANGED <<pages, printed, all_text, sections>>
    /\ UNCHANGED <<uploaded, skipped, errors, sent, events, results, converterVars, power_str,
                   phase, is_home_trainer, warmup_index, power_data, text, intervals,
                   current_phase, op>>

\* one turn of the loop of parse over the sections (lines 1308-1323): the
\* section parser returns the workout, which is appended, or raises (raised;
\* what it raises on is in the text of the section, which the tokens do not
\* hold), and then the except clause prints the code and goes on
ParseTurn ==
    /\ op = "parse"
    /\ pc = "sections"
    /\ i <= Len(sections)
    /\ \E raised \in BOOLEAN :
          IF raised /\ sections[i].workout_type \in {"cycling", "running", "swimming"}
          THEN /\ printed' = Append(printed, sections[i].code)
               /\ UNCHANGED workouts
          ELSE /\ workouts' = workouts \o ParseSection(sections[i])
               /\ UNCHANGED printed
    /\ i' = i + 1
    /\ UNCHANGED <<pages, all_text, sections, pc>>
    /\ DocFrame

\* parse returns {**week_info, "workouts": workouts}
ParseReturn ==
    /\ op = "parse"
    /\ pc = "sections"
    /\ i > Len(sections)
    /\ pc' = "done"
    /\ UNCHANGED <<pages, printed, all_text, sections, workouts, i>>
    /\ DocFrame

DocNext ==
    \/ ParseBegin
    \/ ExtractPage
    \/ ExtractPageRaises
    \/ LocateSections
    \/ ParseTurn
    \/ ParseReturn

DocSpec == DocInit /\ [][DocNext]_vars

(***************************************************************************)
(* The state machine of the upload scripts and of                          *)
(* GarminService.upload_workout.  Each script runs from its first line to  *)
(* its last, so every step that can be taken is taken in the end.          *)
(***************************************************************************)
UploadInit ==
    /\ op \in UploadScripts \cup {"GarminService.upload_workout", "upload_from_json"}
    /\ pc = "call"
    /\ i = 0
    /\ workouts \in IF op = "GarminService.upload_workout"
                    THEN {<<w>> : w \in BatchWorkouts} ELSE Batches
    /\ pages = <<>> /\ all_text = <<>> /\ sections = <<>> /\ printed = <<>>
    /\ NoUpload
    /\ NoParserCall
    /\ NoConversion

UploadFrame == UNCHANGED <<documentVars, results, converterVars, power_str,
                           phase, is_home_trainer, warmup_index, power_data, text,
                           intervals, current_phase, op>>

\* the workout_id of the next workout the service takes
NextWorkoutId == Cardinality({k \in DOMAIN sent : sent[k].ok}) + 1

\* uploaded = [], skipped = [], errors = [], then the first loop
UploadBegin ==
    /\ op \in UploadScripts
    /\ pc = "call"
    /\ uploaded' = <<>> /\ skipped' = <<>> /\ errors' = <<>>
    /\ i' = 1
    /\ pc' = "cycling"
    /\ UNCHANGED <<sent, events, exception>>
    /\ UploadFrame

\* upload_weekly_workouts: one turn of "for workout in cycling" (sport
\* "cycling") or of "for workout in running" (sport "running")
WeeklyTurn(sport, type, reason) ==
    /\ op = "upload_weekly_workouts"
    /\ pc = sport
    /\ i <= Len(OfType(workouts, type))
    /\ LET workout == OfType(workouts, type)[i] IN
       IF workout.intervals = <<>>
       THEN /\ skipped' = Append(skipped, SkippedEntry(workout.code, workout.date, reason))
            /\ UNCHANGED <<uploaded, errors, sent, events>>
       ELSE \E ok \in BOOLEAN :
              LET out == ConvertAndUpload(workout, sport, ok, NextWorkoutId) IN
              /\ sent' = sent \o out.sent
              /\ events' = events \o UploadCalls(out.sent)
              /\ IF out.raised = ""
                 THEN /\ uploaded' = Append(uploaded,
                              UploadedEntry(workout.code, type, workout.date, out.workoutId, ""))
                      /\ UNCHANGED errors
                 ELSE /\ errors' = Append(errors,
                              ErrorEntry(workout.code, workout.date, out.raised))
                      /\ UNCHANGED uploaded
              /\ UNCHANGED skipped
    /\ i' = i + 1
    /\ UNCHANGED <<exception, pc>>
    /\ UploadFrame

WeeklyCyclingTurn == WeeklyTurn("cycling", "Cyclisme", "Pas d'intervalles")

\* the end of the loop over cycling
WeeklyCyclingEnd ==
    /\ op = "upload_weekly_workouts"
    /\ pc = "cycling"
    /\ i > Len(OfType(workouts, "Cyclisme"))
    /\ i' = 1
    /\ pc' = "running"
    /\ UNCHANGED uploadVars
    /\ UploadFrame

WeeklyRunningTurn == WeeklyTurn("running", "Course à pied", "Séance libre")

\* the end of the loop over running, the swimming workouts, which are all
\* skipped, and the summary
WeeklyFinish ==
    /\ op = "upload_weekly_workouts"
    /\ pc = "running"
    /\ i > Len(OfType(workouts, "Course à pied"))
    /\ skipped' = skipped \o
           [k \in 1..Len(OfType(workouts, "Natation")) |->
               SkippedEntry(OfType(workouts, "Natation")[k].code,
                            OfType(workouts, "Natation")[k].date,
                            "Natation non supportée")]
    /\ pc' = "done"
    /\ UNCHANGED <<uploaded, errors, sent, events, exception, i>>
    /\ UploadFrame

\* clawdbot_workflow.upload_workouts: one turn of a loop over
\* result['workouts'] that takes the workouts of one type that have intervals
ClawdbotTurn(sport, type) ==
    /\ op = "clawdbot_workflow.upload_workouts"
    /\ pc = sport
    /\ i <= Len(workouts)
    /\ IF workouts[i].type = type /\ workouts[i].intervals # <<>>
       THEN \E ok \in BOOLEAN :
              LET out == ConvertAndUpload(workouts[i], sport, ok, NextWorkoutId) IN
              /\ sent' = sent \o out.sent
              /\ events' = events \o UploadCalls(out.sent)
              /\ IF out.raised = ""
                 THEN /\ uploaded' = Append(uploaded,
                              UploadedEntry(workouts[i].code, type, "", out.workoutId, ""))
                      /\ UNCHANGED errors
                 ELSE /\ errors' = Append(errors, ErrorEntry(workouts[i].code, "", out.raised))
                      /\ UNCHANGED uploaded
       ELSE UNCHANGED <<uploaded, errors, sent, events>>
    /\ i' = i + 1
    /\ UNCHANGED <<skipped, exception, pc>>
    /\ UploadFrame

ClawdbotCyclingTurn == ClawdbotTurn("cycling", "Cyclisme")

ClawdbotCyclingEnd ==
    /\ op = "clawdbot_workflow.upload_workouts"
    /\ pc = "cycling"
    /\ i > Len(workouts)
    /\ i' = 1
    /\ pc' = "running"
    /\ UNCHANGED uploadVars
    /\ UploadFrame

ClawdbotRunningTurn == ClawdbotTurn("running", "Course à pied")

\* the end of the second loop and the summary
ClawdbotFinish ==
    /\ op = "clawdbot_workflow.upload_workouts"
    /\ pc = "running"
    /\ i > Len(workouts)
    /\ pc' = "done"
    /\ UNCHANGED <<uploadVars, i>>
    /\ UploadFrame

\* the turn of the loop without its except clause: the exception leaves the
\* loop; C11_EveryWorkoutAttempted tells the two apart
AllCyclingTurnUncaught ==
    /\ op = "upload_all_cycling"
    /\ pc = "cycling"
    /\ i <= Len(OfType(workouts, "Cyclisme"))
    /\ LET workout == OfType(workouts, "Cyclisme")[i] IN
       \E ok \in BOOLEAN :
          LET out == IF ConversionRaises(workout, "cycling")
                     THEN Outcome("invalid literal for int()", <<>>, 0, "")
                     ELSE GarminService_upload_workout(workout, ok, NextWorkoutId) IN
          /\ sent' = sent \o out.sent
          /\ events' = events \o UploadCalls(out.sent)
          /\ IF out.raised = ""
             THEN /\ uploaded' = Append(uploaded,
                          UploadedEntry(workout.code, "", "", out.workoutId,
                                        out.workoutName))
                  /\ UNCHANGED <<exception, pc>>
             ELSE /\ exception' = out.raised
                  /\ pc' = "raised"
                  /\ UNCHANGED uploaded
    /\ i' = i + 1
    /\ UNCHANGED <<skipped, errors>>
    /\ UploadFrame

\* upload_all_cycling: one turn of "for workout_json in cycling_workouts"; the
\* preview conversion raises when the conversion in the service would
AllCyclingTurn ==
    /\ op = "upload_all_cycling"
    /\ pc = "cycling"
    /\ i <= Len(OfType(workouts, "Cyclisme"))
    /\ LET workout == OfType(workouts, "Cyclisme")[i] IN
       \E ok \in BOOLEAN :
          LET out == IF ConversionRaises(workout, "cycling")
                     THEN Outcome("invalid literal for int()", <<>>, 0, "")
                     ELSE GarminService_upload_workout(workout, ok, NextWorkoutId) IN
          /\ sent' = sent \o out.sent
          /\ events' = events \o UploadCalls(out.sent)
          /\ IF out.raised = ""
             THEN /\ uploaded' = Append(uploaded,
                          UploadedEntry(workout.code, "", "", out.workoutId,
                                        out.workoutName))
                  /\ UNCHANGED errors
             ELSE /\ errors' = Append(errors, ErrorEntry(workout.code, "", out.raised))
                  /\ UNCHANGED uploaded
    /\ i' = i + 1
    /\ UNCHANGED <<skipped, exception, pc>>
    /\ UploadFrame

\* the end of the loop and the summary
AllCyclingFinish ==
    /\ op = "upload_all_cycling"
    /\ pc = "cycling"
    /\ i > Len(OfType(workouts, "Cyclisme"))
    /\ pc' = "done"
    /\ UNCHANGED <<uploadVars, i>>
    /\ UploadFrame

\* one call of GarminService.upload_workout(workouts[1]): it returns, or it
\* logs the exception and raises it again (lines 284-286)
ServiceUploadWorkout ==
    /\ op = "GarminService.upload_workout"
    /\ pc = "call"
    /\ \E ok \in BOOLEAN :
          LET out == GarminService_upload_workout(workouts[1], ok, NextWorkoutId) IN
          /\ sent' = sent \o out.sent
          /\ events' = events \o UploadCalls(out.sent)
          /\ exception' = out.raised
          /\ pc' = IF out.raised = "" THEN "done" ELSE "raised"
    /\ UNCHANGED <<uploaded, skipped, errors, i>>
    /\ UploadFrame

\* GarminWorkoutUploader.upload_workout(workout) (garmin_fit_uploader.py):
\* only a cycling workout is sent to the service, and an exception of the
\* service is caught in _upload_cycling; ok: the service took the workout
Uploader_upload_workout(workout, ok) == workout.type = "Cyclisme" /\ ok

\* results[code] = success
SetResult(dict, code, success) ==
    [c \in DOMAIN dict \cup {code} |-> IF c = code THEN success ELSE dict[c]]

FromJsonFrame == UNCHANGED <<documentVars, uploaded, skipped, errors,
                             sent, exception, converterVars, power_str, phase,
                             is_home_trainer, warmup_index, power_data, text, intervals,
                             current_phase, op>>

\* upload_from_json: results = {}
FromJsonBegin ==
    /\ op = "upload_from_json"
    /\ pc = "call"
    /\ results' = NoResults
    /\ i' = 1
    /\ pc' = "loop"
    /\ UNCHANGED events
    /\ FromJsonFrame

\* one turn of "for workout in data.get('workouts', [])": the upload call, which
\* returns, and time.sleep(2) after it
FromJsonTurn ==
    /\ op = "upload_from_json"
    /\ pc = "loop"
    /\ i <= Len(workouts)
    /\ \E ok \in BOOLEAN :
          results' = SetResult(results, workouts[i].code, Uploader_upload_workout(workouts[i], ok))
    /\ events' = events \o <<"upload_workout", "sleep">>
    /\ i' = i + 1
    /\ UNCHANGED pc
    /\ FromJsonFrame

\* return results
FromJsonFinish ==
    /\ op = "upload_from_json"
    /\ pc = "loop"
    /\ i > Len(workouts)
    /\ pc' = "done"
    /\ UNCHANGED <<events, results, i>>
    /\ FromJsonFrame

UploadNext ==
    \/ UploadBegin
    \/ WeeklyCyclingTurn
    \/ WeeklyCyclingEnd
    \/ WeeklyRunningTurn
    \/ WeeklyFinish
    \/ ClawdbotCyclingTurn
    \/ ClawdbotCyclingEnd
    \/ ClawdbotRunningTurn
    \/ ClawdbotFinish
    \/ AllCyclingTurn
    \/ AllCyclingFinish
    \/ ServiceUploadWorkout
    \/ FromJsonBegin
    \/ FromJsonTurn
    \/ FromJsonFinish

UploadSpec == UploadInit /\ [][UploadNext]_vars /\ WF_vars(UploadNext)

(***************************************************************************)
(* Properties of adjust_power_for_garmin.  The phases are named here by    *)
(* their spellings, independently of the substring tests of the code.      *)
(***************************************************************************)
WarmupPhases == {"Echauffement", "Échauffement", "ECHAUFFEMENT"}
CooldownPhases == {"Récupération"}
BodyPhases == {"Corps de séance", "CORPS DE SÉANCE"}

AdjustDone == op = "adjust_power_for_garmin" /\ pc = "done"

C5_WarmupForced ==
    (/\ AdjustDone /\ is_home_trainer /\ phase \in WarmupPhases
     /\ warmup_index.given /\ warmup_index.value \in 0..3) =>
        /\ power_data.adjusted = HT_WARMUP_STANDARD[warmup_index.value + 1].power
        /\ power_data.adjustment = Forced

\* C6: outside home-trainer warmup, home-trainer cooldown and Body,
\* adjust_power_for_garmin returns the document's value unchanged:
\* adjusted = original and adjustment = 0.
C6_UnchangedOtherwise ==
    (/\ AdjustDone
     /\ ~(is_home_trainer /\ phase \in WarmupPhases)
     /\ ~(is_home_trainer /\ phase \in CooldownPhases)
     /\ phase \notin BodyPhases) =>
        /\ power_data.original = power_str
        /\ power_data.adjusted = power_str
        /\ power_data.adjustment = Watts(0)

\* an outdoor cooldown range that comes back as it went in
C6_Witness ==
    /\ AdjustDone /\ ~is_home_trainer /\ phase = "Récupération"
    /\ power_str = Range(130, 140)
    /\ power_data.adjusted = Range(130, 140)
    /\ power_data.adjustment = Watts(0)

(***************************************************************************)
(* Properties of the cycling parsers.                                      *)
(***************************************************************************)
CyclingParsers == {"_parse_cycling_full_text", "_parse_cycling_table_v3_with_ht_rules"}

ParserDone == op \in CyclingParsers /\ pc = "done"

Seconds(d) == d.m * 60 + d.s

\* a line that, alone in the Body, parses to one interval: for the table parser
\* "<duration> <cadence> <power>", for the full-text parser
\* "<duration> (<position>) <cadence> <power>"
OneIntervalLine(l) ==
    /\ l.label = ""
    /\ IF op = "_parse_cycling_table_v3_with_ht_rules"
       THEN l.kind = "plain"
       ELSE l.kind = "posplain" /\ l.stars = 0

\* the text is a Body span: the label, a repetition declaration, then interval lines
RepetitionSpan ==
    /\ Len(text) >= 3
    /\ text[1] = LabelLine("Corps de séance")
    /\ text[2].kind = "rep"
    /\ \A j \in 3..Len(text) : OneIntervalLine(text[j])

\* C1: a Body span made of a repetition declaration "N x (...)" followed by k
\* interval lines yields N * k intervals, the k lines in order repeated N times;
\* the copy c of line j is tagged iteration c of N and differs from the first
\* copy in nothing else.
C1_RepetitionExpansion ==
    (ParserDone /\ ~is_home_trainer /\ RepetitionSpan) =>
        LET N == text[2].n
            k == Len(text) - 2
        IN /\ Len(intervals) = N * k
           /\ \A c \in 1..N : \A j \in 1..k :
                  LET iv == intervals[(c - 1) * k + j]
                  IN /\ iv.duration = text[2 + j].duration
                     /\ iv.power_watts_original = text[2 + j].power
                     /\ iv.repetition_iteration = c
                     /\ iv.repetition_total = N
                     /\ [iv EXCEPT !.repetition_iteration = 1] = intervals[j]

\* C2: on the home trainer the warmup intervals of a cycling workout are the
\* four fixed blocks (2:30 96-106, 2:30 130-136, 5:00 156-166, 5:00 180-190) at
\* the head of the list, and its cooldown intervals are the two fixed blocks
\* (2:00 175-180) at its tail; no other interval is tagged warmup or cooldown.
C2_HomeTrainerBlocks ==
    (ParserDone /\ is_home_trainer) =>
        LET n == Len(intervals)
            blocks == << <<150, 96, 106>>, <<150, 130, 136>>,
                         <<300, 156, 166>>, <<300, 180, 190>> >>
        IN /\ n >= 6
           /\ \A k \in 1..4 :
                  /\ intervals[k].phase \in WarmupPhases
                  /\ Seconds(intervals[k].duration) = blocks[k][1]
                  /\ intervals[k].power_watts = Range(blocks[k][2], blocks[k][3])
           /\ \A k \in 5..n : intervals[k].phase \notin WarmupPhases
           /\ \A k \in (n - 1)..n :
                  /\ intervals[k].phase \in CooldownPhases
                  /\ Seconds(intervals[k].duration) = 120
                  /\ intervals[k].power_watts = Range(175, 180)
           /\ \A k \in 1..(n - 2) : intervals[k].phase \notin CooldownPhases

\* a home-trainer text whose Body and cooldown both hold an interval line
C2_Witness ==
    /\ op = "_parse_cycling_table_v3_with_ht_rules" /\ pc = "done" /\ is_home_trainer
    /\ Len(text) = 4
    /\ text[1] = LabelLine("Corps de séance") /\ text[2].kind = "plain"
    /\ text[3] = LabelLine("Récupération") /\ text[4].kind = "plain"
    /\ Len(intervals) = 7

\* the index after the run of sub-lines ("<duration> <cadence> <power>", no
\* label) that follows line d of lines
SubLinesEnd(lines, d) ==
    LET others == {e \in (d + 1)..Len(lines) :
                      ~(lines[e].kind = "plain" /\ lines[e].label = "")}
    IN IF others = {} THEN Len(lines) + 1
       ELSE CHOOSE e \in others : \A f \in others : e <= f

\* out holds, from index b + 1 on, one sub-interval per sub-line of the parent
\* line d of lines, in line order, each with the parent's position
SubIntervalsAt(out, b, lines, d) ==
    LET e == SubLinesEnd(lines, d)
    IN /\ Len(out) >= b + (e - d - 1)
       /\ \A k \in 1..(e - d - 1) :
              /\ out[b + k].position = lines[d].position
              /\ out[b + k].is_sub_interval
              /\ out[b + k].phase = "Corps de séance"
              /\ out[b + k].duration = lines[d + k].duration
              /\ out[b + k].cadence_rpm = lines[d + k].cadence
              /\ out[b + k].power_watts_original = lines[d + k].power

LineParsers == {"_parse_cycling_table_v3_with_ht_rules", "_parse_running_table_v3"}

PhaseRank(ph) ==
    CASE ph = "Echauffement" -> 1
      [] ph = "Corps de séance" -> 2
      [] ph = "Récupération" -> 3
      [] OTHER -> 0

RECURSIVE ExpandGroups(_)
ExpandGroups(groups) ==
    IF groups = <<>> THEN <<>>
    ELSE (IF Head(groups).type = "single" THEN <<Head(groups).interval>>
          ELSE ExpandRepetition(Head(groups).steps, Head(groups).iterations, 1))
         \o ExpandGroups(Tail(groups))

\* C8: detect_repeat_groups is the inverse of the parser's repetition
\* expansion: for a list of plain intervals and expanded blocks, expanding the
\* groups it returns, in order, gives back the list.
C8_DetectInvertsExpansion ==
    (op = "detect_repeat_groups" /\ pc = "done") =>
        ExpandGroups(repeat_groups) = workout_json.intervals

Cadences == {"libre", "70à75", "90à95"}

\* the workout with the cadence_rpm of every interval set to cadence
WithCadence(w, cadence) ==
    [w EXCEPT !.intervals =
        [k \in 1..Len(w.intervals) |-> [w.intervals[k] EXCEPT !.cadence_rpm = cadence]]]

\* C9: the payload of convert_to_garmin_cycling_workout holds no cadence: a
\* workout that differs from the one converted in the cadence_rpm of its
\* intervals only gives the same payload.
C9_NoCadenceInPayload ==
    (op = "convert_to_garmin_cycling_workout" /\ pc = "done") =>
        \A cadence \in Cadences :
            convert_to_garmin_cycling_workout(WithCadence(workout_json, cadence))
                = garmin_workout

\* the workout with the pace fields of every interval left out
WithoutPace(w) ==
    [w EXCEPT !.intervals =
        [k \in 1..Len(w.intervals) |->
            [w.intervals[k] EXCEPT !.pace_min_per_km = "", !.pace_parsed = PaceError,
                                   !.pace_description = ""]]]

\* C10: every step of the payload of convert_to_garmin_running_workout has
\* the no-target target type and holds no pace: the workout without its pace
\* fields gives the same payload.
C10_NoPaceInPayload ==
    (op = "convert_to_garmin_running_workout" /\ pc = "done") =>
        /\ \A k \in DOMAIN garmin_workout.workoutSegments[1].workoutSteps :
               garmin_workout.workoutSegments[1].workoutSteps[k]
                   .targetType.workoutTargetTypeKey = "no.target"
        /\ convert_to_garmin_running_workout(WithoutPace(workout_json)) = garmin_workout

(***************************************************************************)
(* Properties of find_workout_sections and parse (DocSpec).                *)
(***************************************************************************)
\* find_workout_sections has returned
SectionsLocated == op = "parse" /\ pc \in {"sections", "done"}

\* the offsets of all_text where a marker stands: a code that one of the
\* workout patterns matches together with what follows it
Markers ==
    {k \in 1..Len(all_text) :
        \E n \in 1..Len(workout_patterns) : PatternMatchAt(workout_patterns[n], all_text, k)}

\* the n-th marker of the text, in the order of the text
NthMarker(n) == CHOOSE k \in Markers : Cardinality({j \in Markers : j < k}) = n - 1

SectionTexts == [n \in 1..Len(sections) |-> sections[n].text]

\* C13: find_workout_sections returns one section per marker, in the order of
\* the markers in the text; the text of section n runs from the n-th marker
\* up to the next marker, or to the end of the text for the last one, so that
\* the section texts put end to end are the text from the first marker on.
C13_SectionsAreSpans ==
    SectionsLocated =>
        /\ Len(sections) = Cardinality(Markers)
        /\ \A n \in 1..Len(sections) :
              /\ sections[n].code = all_text[NthMarker(n)].s
              /\ sections[n].text =
                     SubSeq(all_text, NthMarker(n),
                            IF n < Len(sections) THEN NthMarker(n + 1) - 1
                            ELSE Len(all_text))
        /\ Len(sections) > 0 =>
              Flatten(SectionTexts) = SubSeq(all_text, NthMarker(1), Len(all_text))

\* a swimming marker stands before a cycling marker: the order of the text is
\* not the order of the patterns
C13_Witness ==
    /\ SectionsLocated
    /\ Len(sections) >= 2
    /\ sections[1].workout_type = "swimming"
    /\ sections[2].workout_type = "cycling"

\* C14: every section starts at a code that is followed by a parenthetical
\* holding "le matin", for each of the three disciplines.
C14_MatinQualifier ==
    SectionsLocated =>
        \A n \in 1..Len(sections) :
            /\ Len(sections[n].text) >= 2
            /\ sections[n].text[1].kind = "code"
            /\ MatinParenMatch(sections[n].text[2])

\* how many entries of a list of sections or workouts carry the code
CountCode(list, code) == Cardinality({n \in 1..Len(list) : list[n].code = code})
MarkersOf(code) == {k \in Markers : all_text[k].s = code}
Codes == {t.s : t \in CodeTokens}

\* C15: a code whose marker stands at several places of the text has as many
\* sections, and at the return of parse (no section parser having raised) as
\* many workout records, as it has markers; the records stand in the order of
\* the sections, each with the text of its own section.
C15_DuplicatesKept ==
    /\ SectionsLocated =>
          \A code \in Codes : CountCode(sections, code) = Cardinality(MarkersOf(code))
    /\ (op = "parse" /\ pc = "done" /\ printed = <<>>) =>
          /\ Len(workouts) = Len(sections)
          /\ \A n \in 1..Len(workouts) :
                /\ workouts[n].code = sections[n].code
                /\ workouts[n].text = sections[n].text

\* parse has returned two records of one code
C15_Witness ==
    /\ op = "parse" /\ pc = "done"
    /\ \E code \in Codes : Cardinality(MarkersOf(code)) = 2 /\ CountCode(workouts, code) = 2

\* C16: no two workout records of the result of parse carry the same code.
C16_CodeUnique ==
    (op = "parse" /\ pc = "done") =>
        \A m, n \in 1..Len(workouts) : workouts[m].code = workouts[n].code => m = n

\* C18: when the text of a page cannot be extracted, parse never gets past
\* find_workout_sections: it returns nothing and no workout record is made.
C18_ExtractionFailureIsFatal ==
    (op = "parse" /\ \E k \in 1..Len(pages) : ~pages[k].readable) =>
        /\ pc \in {"call", "pages", "raised"}
        /\ sections = <<>>
        /\ workouts = <<>>

\* the second page fails after a first page that holds a marker was read
C18_Witness ==
    /\ op = "parse" /\ pc = "raised"
    /\ i = 2
    /\ Markers # {}

(***************************************************************************)
(* Properties of the running table parser, of the durations and of the     *)
(* power ranges (Spec).                                                    *)
(***************************************************************************)
\* a line whose pace range has a seconds component of 60 or more
MalformedPace(l) == l.pace # NoPace /\ (l.pace.bb >= 60 \/ l.pace.dd >= 60)

WithoutMalformed(lines) == SelectSeq(lines, LAMBDA l : ~MalformedPace(l))

\* what the lines of a running table give when each is read in its turn,
\* from the current phase cur
RECURSIVE RunningOutput(_, _)
RunningOutput(lines, cur) ==
    IF lines = <<>> THEN <<>>
    ELSE LET now == IF detect_running_phase(Head(lines)) # ""
                    THEN detect_running_phase(Head(lines)) ELSE cur
         IN RunningLineIntervals(Head(lines), now) \o RunningOutput(Tail(lines), now)

\* C17: in the running table parser a line whose pace has seconds of 60 or
\* more adds no interval and stops nothing: at every turn of the loop, and at
\* the return, the intervals are those the lines read so far give with the
\* malformed lines taken out.
C17_MalformedPaceLineDropped ==
    (op = "_parse_running_table_v3" /\ pc \in {"loop", "done"}) =>
        intervals = RunningOutput(WithoutMalformed(SubSeq(text, 1, i - 1)), "")

\* the parser has returned from a text with a malformed line between two lines
\* that give an interval
C17_Witness ==
    /\ op = "_parse_running_table_v3" /\ pc = "done"
    /\ \E k \in 2..(Len(text) - 1) :
          /\ MalformedPace(text[k])
          /\ RunningOutput(SubSeq(text, 1, k - 1), "") # <<>>
          /\ Len(intervals) > Len(RunningOutput(SubSeq(text, 1, k - 1), ""))

\* seconds written back as "mm:ss"
FormatDuration(seconds) == Dur(2, seconds \div 60, seconds % 60)

\* the intervals at hand: those a parser has returned, those the converter was given
IntervalsAtHand ==
    IF pc # "done" THEN <<>>
    ELSE IF op \in ConverterOps THEN workout_json.intervals
    ELSE intervals

\* C19: the duration string of every interval gives a number of seconds that
\* is not negative and that, written back as mm:ss, is the string again.
C19_DurationRoundTrip ==
    \A k \in DOMAIN IntervalsAtHand :
        /\ parse_duration_to_seconds(IntervalsAtHand[k].duration) >= 0
        /\ FormatDuration(parse_duration_to_seconds(IntervalsAtHand[k].duration))
               = IntervalsAtHand[k].duration

\* the steps of a payload, those of its repeat groups included
RECURSIVE ExecutableSteps(_)
ExecutableSteps(steps) ==
    IF steps = <<>> THEN <<>>
    ELSE (IF Head(steps).type = "RepeatGroupDTO" THEN Head(steps).workoutSteps
          ELSE <<Head(steps)>>) \o ExecutableSteps(Tail(steps))

\* C20: a power range is low <= high: the range adjust_power_for_garmin
\* returns, the range of every interval of the cycling parsers, and the two
\* targets of every step create_cycling_step builds; a single value gives
\* targets that are equal.
C20_PowerRangeOrdered ==
    /\ (AdjustDone /\ power_data.adjusted.kind = "range") =>
           power_data.adjusted.lo <= power_data.adjusted.hi
    /\ (op \in CyclingParsers /\ pc = "done") =>
           \A k \in DOMAIN intervals :
               intervals[k].power_watts.kind = "range" =>
                   intervals[k].power_watts.lo <= intervals[k].power_watts.hi
    /\ (op = "convert_to_garmin_cycling_workout" /\ pc = "done") =>
           LET steps == ExecutableSteps(garmin_workout.workoutSegments[1].workoutSteps)
           IN \A k \in DOMAIN steps : steps[k].targetValueOne <= steps[k].targetValueTwo

(***************************************************************************)
(* The batch upload loops.                                                 *)
(***************************************************************************)
BatchLoops == {"upload_weekly_workouts", "upload_all_cycling"}

\* the workouts the loops of the script go over, in the order of the loops
LoopBatch ==
    IF op = "upload_all_cycling" THEN OfType(workouts, "Cyclisme")
    ELSE OfType(workouts, "Cyclisme") \o OfType(workouts, "Course à pied")

\* the workouts of LoopBatch a try block is entered for: upload_weekly_workouts
\* skips a workout without intervals before its try
Tried == IF op = "upload_all_cycling" THEN LoopBatch
         ELSE SelectSeq(LoopBatch, LAMBDA w : w.intervals # <<>>)

SportOf(w) == ServiceSport(w.type)

\* the workouts of Tried whose conversion gives a payload
Converted == SelectSeq(Tried, LAMBDA w : ~ConversionRaises(w, SportOf(w)))

CountEntries(entries, code) == Cardinality({k \in DOMAIN entries : entries[k].code = code})

\* every workout a try block is entered for has its entry in uploaded or in
\* errors, and every workout that converts was sent, in the order of the batch
AttemptsComplete ==
    /\ \A k \in DOMAIN Tried :
           CountEntries(uploaded, Tried[k].code) + CountEntries(errors, Tried[k].code)
               = CountEntries(Tried, Tried[k].code)
    /\ Len(uploaded) + Len(errors) = Len(Tried)
    /\ Len(sent) = Len(Converted)
    /\ \A k \in DOMAIN sent : sent[k].payload.workoutName = Converted[k].code
    /\ Len(uploaded) = Cardinality({k \in DOMAIN sent : sent[k].ok})

ErrorsCarryCodeAndMessage ==
    \A k \in DOMAIN errors :
        /\ errors[k].error # ""
        /\ \E j \in DOMAIN Tried : Tried[j].code = errors[k].code

\* C11: in the batch upload loops a conversion or an upload that raises is
\* caught (the script never ends on the exception) and gives an entry of
\* errors with the code of the workout and the message; and the script ends
\* having made an attempt for every workout of the batch: every workout has
\* its entry in uploaded or errors and every workout that converts was sent,
\* whatever happened to the workouts before it.
C11_EveryWorkoutAttempted ==
    /\ [](op \in BatchLoops => (pc # "raised" /\ exception = "" /\ ErrorsCarryCodeAndMessage))
    /\ (op \in BatchLoops /\ pc = "call") ~> (pc = "done" /\ AttemptsComplete)

\* three workouts of which the upload of the second raised: it is in errors
\* and the third was sent and is in uploaded
C11_Witness ==
    /\ op \in BatchLoops
    /\ pc = "done"
    /\ Len(Tried) = 3
    /\ Len(sent) = 3 /\ sent[1].ok /\ ~sent[2].ok /\ sent[3].ok
    /\ Len(errors) = 1 /\ errors[1].code = Tried[2].code
    /\ Len(uploaded) = 2 /\ uploaded[2].code = Tried[3].code

\* C12: a swimming workout is never sent to the service, it does not make a
\* script end on an exception, and it is not passed over in silence:
\* GarminService.upload_workout ends on the explicit failure "Type de workout
\* non supporté", and the summary of a script that was handed the workout has
\* an entry of skipped or errors with its code and a reason.
C12_SwimmingExplicitlyUnsupported ==
    /\ \A k \in DOMAIN sent : \A j \in DOMAIN workouts :
           workouts[j].type = "Natation" => sent[k].payload.workoutName # workouts[j].code
    /\ (op \in UploadScripts) => pc # "raised"
    /\ (op = "GarminService.upload_workout" /\ pc # "call" /\ workouts[1].type = "Natation") =>
           (pc = "raised" /\ exception = UnsupportedType("Natation"))
    /\ (op \in {"upload_weekly_workouts", "clawdbot_workflow.upload_workouts"} /\ pc = "done") =>
           \A j \in DOMAIN workouts :
               workouts[j].type = "Natation" =>
                   \/ \E k \in DOMAIN skipped :
                          skipped[k].code = workouts[j].code /\ skipped[k].reason # ""
                   \/ \E k \in DOMAIN errors :
                          errors[k].code = workouts[j].code /\ errors[k].error # ""

\* C21: in a batch upload loop (upload_from_json, upload_weekly_workouts) a
\* call of time.sleep stands between any two consecutive upload calls: no
\* upload call follows another one at once.
C21_DelayBetweenUploads ==
    (op \in {"upload_from_json", "upload_weekly_workouts"}) =>
        \A k \in 1..(Len(events) - 1) :
            ~(events[k] = "upload_workout" /\ events[k + 1] = "upload_workout")

\* C22: after a repetition declaration "N x (pattern):" the lines taken as one
\* iteration are as many as the pattern has segments: in a Body span made of
\* the declaration and k interval lines, k at least the number s of segments,
\* the first s lines are repeated N times and tagged, and the k - s lines
\* after them follow once each, untagged.
C22_IterationLineCount ==
    (ParserDone /\ ~is_home_trainer /\ RepetitionSpan /\ Len(text) - 2 >= text[2].segs) =>
        LET N == text[2].n
            s == text[2].segs
            k == Len(text) - 2
        IN /\ Len(intervals) = N * s + (k - s)
           /\ \A c \in 1..N : \A j \in 1..s :
                  /\ intervals[(c - 1) * s + j].duration = text[2 + j].duration
                  /\ intervals[(c - 1) * s + j].repetition_iteration = c
                  /\ intervals[(c - 1) * s + j].repetition_total = N
           /\ \A j \in (s + 1)..k :
                  /\ intervals[N * s + j - s].duration = text[2 + j].duration
                  /\ intervals[N * s + j - s].repetition_total = 0

(***************************************************************************)
(* The payloads of the converter.                                          *)
(***************************************************************************)
ConvertDone ==
    /\ op \in {"convert_to_garmin_cycling_workout", "convert_to_garmin_running_workout"}
    /\ pc = "done"

\* the intervals the steps of a payload are built from: the interval of a
\* single group, the one iteration a repeat group holds
RECURSIVE StepIntervals(_)
StepIntervals(groups) ==
    IF groups = <<>> THEN <<>>
    ELSE (IF Head(groups).type = "single" THEN <<Head(groups).interval>>
          ELSE Head(groups).steps) \o StepIntervals(Tail(groups))

PayloadSteps == ExecutableSteps(garmin_workout.workoutSegments[1].workoutSteps)

\* the kinds of step and their stepTypeId
StepKinds ==
    { [stepTypeId |-> 1, stepTypeKey |-> "warmup"],
      [stepTypeId |-> 3, stepTypeKey |-> "interval"],
      [stepTypeId |-> 5, stepTypeKey |-> "cooldown"],
      [stepTypeId |-> 4, stepTypeKey |-> "rest"] }

PhaseKind(ph) ==
    CASE ph = "Echauffement" -> "warmup"
      [] ph = "Corps de séance" -> "interval"
      [] ph = "Récupération" -> "cooldown"

BlockLine(l) ==
    /\ l.label = "" /\ ~l.indent
    /\ IF op = "_parse_cycling_table_v3_with_ht_rules"
       THEN l.kind = "plain" /\ l.duration.w = 1
       ELSE l.kind = "posplain" /\ l.stars = 0

OutsideLine(l) ==
    /\ l.label = "" /\ ~l.indent
    /\ IF op = "_parse_cycling_table_v3_with_ht_rules"
       THEN l.kind = "plain" /\ l.duration.w = 2
       ELSE l.kind = "posplain" /\ l.stars >= 3 /\ l.duration.w = 2

\* from line at on the text is made of lines outside any block and of
\* declarations, each followed by as many block lines as it has segments
RECURSIVE BlocksAndLines(_, _)
BlocksAndLines(lines, at) ==
    IF at > Len(lines) THEN TRUE
    ELSE IF lines[at].kind = "rep"
    THEN /\ at + lines[at].segs <= Len(lines)
         /\ \A j \in 1..lines[at].segs : BlockLine(lines[at + j])
         /\ BlocksAndLines(lines, at + lines[at].segs + 1)
    ELSE OutsideLine(lines[at]) /\ BlocksAndLines(lines, at + 1)

\* the first line after the label "Corps de séance" (the table parser reads a
\* text without the label too)
SpanStart ==
    IF text # <<>> /\ text[1] = LabelLine("Corps de séance") THEN 2
    ELSE IF op = "_parse_cycling_table_v3_with_ht_rules" THEN 1 ELSE Len(text) + 1

Declarations == {k \in SpanStart..Len(text) : text[k].kind = "rep"}

\* what an interval says of the line it comes from and of its copy
Copy(duration, iteration, total) ==
    [duration |-> duration, repetition_iteration |-> iteration, repetition_total |-> total]

\* the lines in document order, the block of each declaration as its copies
\* 1..n one after the other, each copy in line order
RECURSIVE DocumentOrder(_, _)
DocumentOrder(lines, at) ==
    IF at > Len(lines) THEN <<>>
    ELSE IF lines[at].kind = "rep"
    THEN [k \in 1..(lines[at].n * lines[at].segs) |->
             Copy(lines[at + 1 + ((k - 1) % lines[at].segs)].duration,
                  1 + ((k - 1) \div lines[at].segs), lines[at].n)]
         \o DocumentOrder(lines, at + lines[at].segs + 1)
    ELSE <<Copy(lines[at].duration, 0, 0)>> \o DocumentOrder(lines, at + 1)

\* C24: in the interval list of a cycling workout the intervals of the lines
\* before a repetition block come before all copies of the block, those of the
\* lines after it come after all its copies, once each, and that for every
\* block of the span: the list is the lines in document order, each block as
\* its copies 1..N one after the other.
C24_OrderAroundBlocks ==
    (ParserDone /\ ~is_home_trainer /\ Declarations # {} /\ BlocksAndLines(text, SpanStart)) =>
        /\ Len(intervals) = Len(DocumentOrder(text, SpanStart))
        /\ \A k \in DOMAIN intervals :
               Copy(intervals[k].duration, intervals[k].repetition_iteration,
                    intervals[k].repetition_total) = DocumentOrder(text, SpanStart)[k]

\* the records of the sections from section k on are the workouts from a on,
\* but for the sections whose codes are printed from b on
RECURSIVE RecordsButPrinted(_, _, _)
RecordsButPrinted(k, a, b) ==
    IF k >= i \/ k > Len(sections) THEN a > Len(workouts) /\ b > Len(printed)
    ELSE \/ /\ a <= Len(workouts)
            /\ <<workouts[a]>> = ParseSection(sections[k])
            /\ RecordsButPrinted(k + 1, a + 1, b)
         \/ /\ b <= Len(printed)
            /\ printed[b] = sections[k].code
            /\ RecordsButPrinted(k + 1, a, b + 1)

\* C25: in parse an exception raised while one section is parsed is caught: it
\* never leaves parse (the only exception that does is that of the text
\* extraction), the section gives no record, and the later sections are
\* parsed all the same: the records are those of the sections that parsed,
\* in document order, and parse returns.
C25_SectionFailureIsolated ==
    (op = "parse") =>
        /\ pc = "raised" => exception = "extract_text"
        /\ pc \in {"sections", "done"} => RecordsButPrinted(1, 1, 1)
        /\ pc = "done" => Len(workouts) + Len(printed) = Len(sections)

\* parse has returned: the first section raised and the second gave its record
C25_Witness ==
    /\ op = "parse" /\ pc = "done"
    /\ Len(sections) = 2
    /\ printed = <<sections[1].code>>
    /\ workouts = ParseSection(sections[2])

\* C26: when a batch upload (upload_weekly_workouts,
\* clawdbot_workflow.upload_workouts) finishes, every workout of the document
\* is reported in exactly one of the lists uploaded, skipped and errors: the
\* three lists hold together as many entries as the document has workouts, and
\* as many entries of each code as the document has workouts of that code.
C26_EveryWorkoutReportedOnce ==
    (op \in {"upload_weekly_workouts", "clawdbot_workflow.upload_workouts"} /\ pc = "done") =>
        /\ Len(uploaded) + Len(skipped) + Len(errors) = Len(workouts)
        /\ \A k \in DOMAIN workouts :
               CountEntries(uploaded, workouts[k].code)
                   + CountEntries(skipped, workouts[k].code)
                   + CountEntries(errors, workouts[k].code)
                   = CountEntries(workouts, workouts[k].code)

\* the seconds the steps of a payload last: a repeat group lasts
\* numberOfIterations times its nested steps
RECURSIVE StepsSeconds(_)
StepsSeconds(steps) ==
    IF steps = <<>> THEN 0
    ELSE (IF Head(steps).type = "RepeatGroupDTO"
          THEN Head(steps).numberOfIterations * StepsSeconds(Head(steps).workoutSteps)
          ELSE Head(steps).endConditionValue) + StepsSeconds(Tail(steps))

\* C27: the payload of convert_to_garmin_cycling_workout and of
\* convert_to_garmin_running_workout conserves the total duration:
\* estimatedDurationInSecs is the sum of the durations of its top-level steps,
\* a repeat group counting as numberOfIterations times its nested steps.
C27_DurationConserved ==
    ConvertDone =>
        garmin_workout.estimatedDurationInSecs
            = StepsSeconds(garmin_workout.workoutSegments[1].workoutSteps)

\* every node of a payload in the order of execution: a repeat group node,
\* then its nested steps
RECURSIVE PayloadNodes(_)
PayloadNodes(steps) ==
    IF steps = <<>> THEN <<>>
    ELSE (IF Head(steps).type = "RepeatGroupDTO"
          THEN <<Head(steps)>> \o Head(steps).workoutSteps
          ELSE <<Head(steps)>>) \o PayloadNodes(Tail(steps))

TopLevelSteps == garmin_workout.workoutSegments[1].workoutSteps

\* C28: in a payload of convert_to_garmin_cycling_workout and of
\* convert_to_garmin_running_workout the stepOrder values of all the nodes,
\* nested steps and repeat groups included, are pairwise distinct and
\* increase in the order of execution; each repeat group has a childStepId
\* of its own, which its nested steps carry and no other step does.
C28_StepOrderDistinct ==
    ConvertDone =>
        LET nodes == PayloadNodes(TopLevelSteps)
        IN /\ \A g, h \in DOMAIN nodes :
                  g < h => nodes[g].stepOrder < nodes[h].stepOrder
           /\ \A g \in DOMAIN TopLevelSteps :
                  IF TopLevelSteps[g].type = "RepeatGroupDTO"
                  THEN /\ \A k \in DOMAIN TopLevelSteps[g].workoutSteps :
                              TopLevelSteps[g].workoutSteps[k].childStepId
                                  = TopLevelSteps[g].childStepId
                       /\ \A h \in DOMAIN TopLevelSteps :
                              h # g =>
                                  /\ TopLevelSteps[h].childStepId
                                         # TopLevelSteps[g].childStepId
                                  /\ TopLevelSteps[h].type = "RepeatGroupDTO" =>
                                         \A k \in DOMAIN TopLevelSteps[h].workoutSteps :
                                             TopLevelSteps[h].workoutSteps[k].childStepId
                                                 # TopLevelSteps[g].childStepId
                  ELSE TRUE

\* C29: an interval of _parse_running_table_v3 that comes from a line with a
\* numeric pace range and a duration has the duration of the line, and never
\* a bound of the pace range, whether the duration stands before the pace
\* range or after it.
C29_DurationNotPaceBound ==
    (op = "_parse_running_table_v3" /\ pc = "done") =>
        \A k \in DOMAIN intervals :
            intervals[k].pace_min_per_km # "" =>
                \A n \in DOMAIN text :
                    (text[n].pace.raw = intervals[k].pace_min_per_km
                        /\ text[n].duration # NoDur) =>
                        intervals[k].duration = text[n].duration

\* C30: in _parse_cycling_table_v3_with_ht_rules a line that carries a phase
\* label only switches the current phase and emits no interval, also when
\* the line holds a duration, a cadence range and a power range: the phase
\* after a text that ends on such a line is the phase of its label, and no
\* interval of the result has the duration printed on a labelled line.
C30_PhaseLineEmitsNothing ==
    (op = "_parse_cycling_table_v3_with_ht_rules" /\ pc = "done") =>
        \A n \in DOMAIN text :
            TablePhaseLabel(text[n]) # "" =>
                /\ n = Len(text) => current_phase = TablePhaseLabel(text[n])
                /\ text[n].duration # NoDur =>
                       \A k \in DOMAIN intervals :
                           intervals[k].duration # text[n].duration

====
